---- MODULE Spec2Model ----
(***************************************************************************)
(* Attendance lifecycle engine of isleoyu/Attendance_System:               *)
(*   - ClockStateMachine   (src/src/lib/attendance/state-machine.ts)       *)
(*   - AttendanceService   (same file, second half)                        *)
(*   - calculateWorkHours  (src/unnamed/part_016)                          *)
(*   - time utilities      (src/src/lib/utils.ts)                          *)
(* Timestamps are counted in ticks; TicksPerMinute ticks make one minute,  *)
(* so that the floor in differenceInMinutes is a real floor.               *)
(***************************************************************************)
EXTENDS Integers, Sequences, FiniteSets, TLC

(***************************************************************************)
(* Bounds of the model                                                     *)
(***************************************************************************)
MaxDay == 0
TicksPerMinute == 2
MaxAudit == 5
MaxCalls == 3

(***************************************************************************)
(* Nullable values: null is <<>>, a present value v is <<v>>               *)
(***************************************************************************)
Null == <<>>
Some(v) == <<v>>
IsNull(x) == x = <<>>
Val(x) == x[1]

(***************************************************************************)
(* Time utilities (src/src/lib/utils.ts)                                   *)
(***************************************************************************)
MinutesPerDay == 24 * 60
DayTicks == MinutesPerDay * TicksPerMinute

\* "HH:MM" strings are kept as their four digits <<H,H,M,M>>
parseTimeString(timeStr) ==
  [hours |-> 10 * timeStr[1] + timeStr[2], minutes |-> 10 * timeStr[3] + timeStr[4]]

\* Math.floor((end - start) / (1000 * 60)); \div floors towards minus infinity
differenceInMinutes(end, start) == (end - start) \div TicksPerMinute

startOfDay(date) == date - (date % DayTicks)

\* Date.getHours() * 60 + Date.getMinutes()
MinuteOfDay(date) == (date % DayTicks) \div TicksPerMinute

Max(a, b) == IF a >= b THEN a ELSE b
Min(a, b) == IF a <= b THEN a ELSE b

(***************************************************************************)
(* Instants at which the clock is read: 09:00, 09:20:30, 18:00 and  *)
(* 21:00 of each day                                                       *)
(***************************************************************************)
TimesOfDay ==
  { 540 * TicksPerMinute, 560 * TicksPerMinute + 1,
    1080 * TicksPerMinute, 1260 * TicksPerMinute }
Days == 0 .. MaxDay
TimePoints == { d * DayTicks + m : d \in Days, m \in TimesOfDay }
FirstInstant == 540 * TicksPerMinute

(***************************************************************************)
(* Shift types and the day's schedule (read-only input)                    *)
(***************************************************************************)
RegularShift ==
  [ id |-> "regular", startTime |-> <<0, 9, 0, 0>>, endTime |-> <<1, 8, 0, 0>>,
    breakDuration |-> 60, maxBreakCount |-> 2, isSplit |-> FALSE,
    splitBreakStart |-> Null, splitBreakEnd |-> Null ]
SplitShift ==
  [ id |-> "split", startTime |-> <<0, 9, 0, 0>>, endTime |-> <<1, 8, 0, 0>>,
    breakDuration |-> 60, maxBreakCount |-> 1, isSplit |-> TRUE,
    splitBreakStart |-> Some(<<1, 2, 0, 0>>), splitBreakEnd |-> Some(<<1, 3, 0, 0>>) ]
ShiftTypes == { RegularShift, SplitShift }
\* a Schedule row with its shiftType included, or null when nothing is scheduled
ScheduleOptions == { Null } \cup { Some([id |-> st.id, shiftType |-> st]) : st \in ShiftTypes }

UserId == "u1"
StoreId == "s1"
BreakTypes == { "REST", "MEAL" }

(***************************************************************************)
(* calculateWorkHours (src/unnamed/part_016)                               *)
(***************************************************************************)
LateClockInLimit == 15
OvertimeReviewLimit == 120
DefaultBreakMinutes == 30

\* break duration measured up to now also for a closed break
BreakDuration_untilNow(brk, nowT) == differenceInMinutes(nowT, brk.startTime)

\* duration of one break as the loop body computes it; nowT is new Date()
BreakDuration(brk, nowT) ==
  IF ~IsNull(brk.endTime)
    THEN differenceInMinutes(Val(brk.endTime), brk.startTime)
    ELSE differenceInMinutes(nowT, brk.startTime)

RECURSIVE SumBreakMinutes(_, _)
SumBreakMinutes(brks, nowT) ==
  IF brks = <<>> THEN 0
  ELSE BreakDuration(Head(brks), nowT) + SumBreakMinutes(Tail(brks), nowT)

HasUnendedBreak(brks) == \E i \in DOMAIN brks : IsNull(brks[i].endTime)

\* calculateScheduledMinutes without the overnight adjustment
calculateScheduledMinutes_noOvernight(shiftType) ==
  LET start == parseTimeString(shiftType.startTime)
      end == parseTimeString(shiftType.endTime)
      raw == end.hours * 60 + end.minutes - (start.hours * 60 + start.minutes)
      splitMinutes ==
        IF shiftType.isSplit /\ ~IsNull(shiftType.splitBreakStart)
                             /\ ~IsNull(shiftType.splitBreakEnd)
          THEN LET splitStart == parseTimeString(Val(shiftType.splitBreakStart))
                   splitEnd == parseTimeString(Val(shiftType.splitBreakEnd))
               IN splitEnd.hours * 60 + splitEnd.minutes
                    - (splitStart.hours * 60 + splitStart.minutes)
          ELSE 0
  IN raw - splitMinutes - shiftType.breakDuration

calculateScheduledMinutes(shiftType) ==
  LET start == parseTimeString(shiftType.startTime)
      end == parseTimeString(shiftType.endTime)
      raw == end.hours * 60 + end.minutes - (start.hours * 60 + start.minutes)
      overnight == IF raw < 0 THEN raw + 24 * 60 ELSE raw
      splitMinutes ==
        IF shiftType.isSplit /\ ~IsNull(shiftType.splitBreakStart)
                             /\ ~IsNull(shiftType.splitBreakEnd)
          THEN LET splitStart == parseTimeString(Val(shiftType.splitBreakStart))
                   splitEnd == parseTimeString(Val(shiftType.splitBreakEnd))
               IN splitEnd.hours * 60 + splitEnd.minutes
                    - (splitStart.hours * 60 + splitStart.minutes)
          ELSE 0
  IN overnight - splitMinutes - shiftType.breakDuration

calculateTimingAnomalies(clockIn, clockOut, shiftType) ==
  IF IsNull(shiftType)
    THEN [earlyClockIn |-> 0, lateClockIn |-> 0, earlyClockOut |-> 0, lateClockOut |-> 0]
    ELSE
      LET scheduledStart == parseTimeString(Val(shiftType).startTime)
          scheduledEnd == parseTimeString(Val(shiftType).endTime)
          clockInMinutes == MinuteOfDay(clockIn)
          clockOutMinutes == MinuteOfDay(clockOut)
          schedStartMinutes == scheduledStart.hours * 60 + scheduledStart.minutes
          schedEndMinutes == scheduledEnd.hours * 60 + scheduledEnd.minutes
      IN [ earlyClockIn |-> Max(0, schedStartMinutes - clockInMinutes),
           lateClockIn |-> Max(0, clockInMinutes - schedStartMinutes),
           earlyClockOut |-> Max(0, schedEndMinutes - clockOutMinutes),
           lateClockOut |-> Max(0, clockOutMinutes - schedEndMinutes) ]

\* calculateWorkHours sending a clock-in that is exactly at the late limit to review
calculateWorkHours_lateLimitInclusive(input, nowT) ==
  LET segment1Minutes == differenceInMinutes(input.clockOut, input.clockIn)
      segment2Minutes ==
        IF ~IsNull(input.clockIn2) /\ ~IsNull(input.clockOut2)
          THEN differenceInMinutes(Val(input.clockOut2), Val(input.clockIn2))
          ELSE 0
      breakMinutes == SumBreakMinutes(input.breaks, nowT)
      hasUnendedBreak == HasUnendedBreak(input.breaks)
      splitBreakMinutes ==
        IF ~IsNull(input.shiftType) /\ Val(input.shiftType).isSplit /\ ~IsNull(input.clockIn2)
          THEN differenceInMinutes(Val(input.clockIn2), input.clockOut)
          ELSE 0
      totalMinutes == segment1Minutes + segment2Minutes
      netWorkMinutes == totalMinutes - breakMinutes
      scheduledMinutes ==
        IF IsNull(input.shiftType) THEN 0 ELSE calculateScheduledMinutes(Val(input.shiftType))
      over == ~IsNull(input.shiftType) /\ netWorkMinutes > scheduledMinutes
      regularMinutes == IF over THEN scheduledMinutes ELSE netWorkMinutes
      overtimeMinutes == IF over THEN netWorkMinutes - scheduledMinutes ELSE 0
      anomalies == calculateTimingAnomalies(input.clockIn, input.clockOut, input.shiftType)
      maxBreakMinutes ==
        IF IsNull(input.shiftType) THEN DefaultBreakMinutes ELSE Val(input.shiftType).breakDuration
      \* breakMinutes > maxBreakMinutes * 1.5
      exceedsMaxBreakTime == 2 * breakMinutes > 3 * maxBreakMinutes
      requiresReview ==
        \/ hasUnendedBreak
        \/ exceedsMaxBreakTime
        \/ anomalies.lateClockIn >= LateClockInLimit
        \/ anomalies.earlyClockOut > 0
        \/ overtimeMinutes > OvertimeReviewLimit
  IN [ totalMinutes |-> totalMinutes,
       breakMinutes |-> breakMinutes,
       netWorkMinutes |-> netWorkMinutes,
       regularMinutes |-> regularMinutes,
       overtimeMinutes |-> overtimeMinutes,
       segment1Minutes |-> segment1Minutes,
       segment2Minutes |-> segment2Minutes,
       splitBreakMinutes |-> splitBreakMinutes,
       earlyClockIn |-> anomalies.earlyClockIn,
       lateClockIn |-> anomalies.lateClockIn,
       earlyClockOut |-> anomalies.earlyClockOut,
       lateClockOut |-> anomalies.lateClockOut,
       hasUnendedBreak |-> hasUnendedBreak,
       exceedsMaxBreakTime |-> exceedsMaxBreakTime,
       requiresReview |-> requiresReview ]

\* input: [clockIn, clockOut, clockIn2, clockOut2, breaks, shiftType];
\* clockIn2, clockOut2 and shiftType are nullable
calculateWorkHours(input, nowT) ==
  LET segment1Minutes == differenceInMinutes(input.clockOut, input.clockIn)
      segment2Minutes ==
        IF ~IsNull(input.clockIn2) /\ ~IsNull(input.clockOut2)
          THEN differenceInMinutes(Val(input.clockOut2), Val(input.clockIn2))
          ELSE 0
      breakMinutes == SumBreakMinutes(input.breaks, nowT)
      hasUnendedBreak == HasUnendedBreak(input.breaks)
      splitBreakMinutes ==
        IF ~IsNull(input.shiftType) /\ Val(input.shiftType).isSplit /\ ~IsNull(input.clockIn2)
          THEN differenceInMinutes(Val(input.clockIn2), input.clockOut)
          ELSE 0
      totalMinutes == segment1Minutes + segment2Minutes
      netWorkMinutes == totalMinutes - breakMinutes
      scheduledMinutes ==
        IF IsNull(input.shiftType) THEN 0 ELSE calculateScheduledMinutes(Val(input.shiftType))
      over == ~IsNull(input.shiftType) /\ netWorkMinutes > scheduledMinutes
      regularMinutes == IF over THEN scheduledMinutes ELSE netWorkMinutes
      overtimeMinutes == IF over THEN netWorkMinutes - scheduledMinutes ELSE 0
      anomalies == calculateTimingAnomalies(input.clockIn, input.clockOut, input.shiftType)
      maxBreakMinutes ==
        IF IsNull(input.shiftType) THEN DefaultBreakMinutes ELSE Val(input.shiftType).breakDuration
      \* breakMinutes > maxBreakMinutes * 1.5
      exceedsMaxBreakTime == 2 * breakMinutes > 3 * maxBreakMinutes
      requiresReview ==
        \/ hasUnendedBreak
        \/ exceedsMaxBreakTime
        \/ anomalies.lateClockIn > LateClockInLimit
        \/ anomalies.earlyClockOut > 0
        \/ overtimeMinutes > OvertimeReviewLimit
  IN [ totalMinutes |-> totalMinutes,
       breakMinutes |-> breakMinutes,
       netWorkMinutes |-> netWorkMinutes,
       regularMinutes |-> regularMinutes,
       overtimeMinutes |-> overtimeMinutes,
       segment1Minutes |-> segment1Minutes,
       segment2Minutes |-> segment2Minutes,
       splitBreakMinutes |-> splitBreakMinutes,
       earlyClockIn |-> anomalies.earlyClockIn,
       lateClockIn |-> anomalies.lateClockIn,
       earlyClockOut |-> anomalies.earlyClockOut,
       lateClockOut |-> anomalies.lateClockOut,
       hasUnendedBreak |-> hasUnendedBreak,
       exceedsMaxBreakTime |-> exceedsMaxBreakTime,
       requiresReview |-> requiresReview ]

(***************************************************************************)
(* ClockStateMachine (src/src/lib/attendance/state-machine.ts)             *)
(***************************************************************************)
ClockState == { "NOT_CLOCKED_IN", "WORKING", "ON_BREAK", "CLOCKED_OUT", "SPLIT_BREAK" }
ClockAction ==
  { "CLOCK_IN", "CLOCK_OUT", "START_BREAK", "END_BREAK",
    "CLOCK_IN_SEGMENT_2", "CLOCK_OUT_SEGMENT_2" }
AttendanceStatus ==
  { "CLOCKED_IN", "ON_BREAK", "CLOCKED_OUT", "PENDING_REVIEW", "APPROVED", "ABSENT", "REJECTED" }

DefaultMaxBreaks == 3

\* ctx.schedule?.shiftType?.isSplit
CtxIsSplit(ctx) == ~IsNull(ctx.schedule) /\ Val(ctx.schedule).shiftType.isSplit

\* the guards of the transition table; a reason is a tuple of message parts
guardStartBreak(ctx) ==
  LET breakCount == IF IsNull(ctx.attendance) THEN 0 ELSE Len(Val(ctx.attendance).breaks)
      maxBreaks ==
        IF IsNull(ctx.schedule) THEN DefaultMaxBreaks
        ELSE Val(ctx.schedule).shiftType.maxBreakCount
  IN IF breakCount >= maxBreaks
       THEN [allowed |-> FALSE, reason |-> <<"max break count reached", maxBreaks>>]
       ELSE [allowed |-> TRUE, reason |-> <<>>]

\* clock-out guard that also refuses once the break ceiling is reached
guardClockOut_refusedAtCeiling(ctx) ==
  IF ~IsNull(ctx.attendance) /\ HasUnendedBreak(Val(ctx.attendance).breaks)
    THEN [allowed |-> FALSE, reason |-> <<"end break before clocking out">>]
    ELSE guardStartBreak(ctx)

guardClockOut(ctx) ==
  IF ~IsNull(ctx.attendance) /\ HasUnendedBreak(Val(ctx.attendance).breaks)
    THEN [allowed |-> FALSE, reason |-> <<"end break before clocking out">>]
    ELSE [allowed |-> TRUE, reason |-> <<>>]

guardSplitEntry(ctx) ==
  IF ~CtxIsSplit(ctx)
    THEN [allowed |-> FALSE, reason |-> <<"not a split shift">>]
    ELSE [allowed |-> TRUE, reason |-> <<>>]

guardClockOutSegment2(ctx) ==
  IF IsNull(ctx.attendance) \/ IsNull(Val(ctx.attendance).clockIn2)
    THEN [allowed |-> FALSE, reason |-> <<"segment 2 not started">>]
    ELSE [allowed |-> TRUE, reason |-> <<>>]

transitions ==
  << [from |-> {"NOT_CLOCKED_IN"}, to |-> "WORKING", action |-> "CLOCK_IN", guard |-> "none"],
     [from |-> {"WORKING"}, to |-> "ON_BREAK", action |-> "START_BREAK", guard |-> "startBreak"],
     [from |-> {"ON_BREAK"}, to |-> "WORKING", action |-> "END_BREAK", guard |-> "none"],
     [from |-> {"WORKING"}, to |-> "CLOCKED_OUT", action |-> "CLOCK_OUT", guard |-> "clockOut"],
     [from |-> {"CLOCKED_OUT"}, to |-> "SPLIT_BREAK", action |-> "CLOCK_OUT", guard |-> "splitEntry"],
     [from |-> {"SPLIT_BREAK"}, to |-> "WORKING", action |-> "CLOCK_IN_SEGMENT_2", guard |-> "none"],
     [from |-> {"WORKING"}, to |-> "CLOCKED_OUT", action |-> "CLOCK_OUT_SEGMENT_2",
      guard |-> "clockOutSegment2"] >>

ApplyGuard(name, ctx) ==
  CASE name = "startBreak" -> guardStartBreak(ctx)
    [] name = "clockOut" -> guardClockOut(ctx)
    [] name = "splitEntry" -> guardSplitEntry(ctx)
    [] name = "clockOutSegment2" -> guardClockOutSegment2(ctx)
    [] OTHER -> [allowed |-> TRUE, reason |-> <<>>]

\* transitions.find(...): index of the first matching entry, 0 when there is none
FindTransition(state, action) ==
  LET hits == { i \in DOMAIN transitions :
                  transitions[i].action = action /\ state \in transitions[i].from }
  IN IF hits = {} THEN 0 ELSE CHOOSE i \in hits : \A j \in hits : i <= j

\* fromAttendance with the final else branch falling back to NOT_CLOCKED_IN
fromAttendance_otherStatusNotClockedIn(attendance, schedule) ==
  IF IsNull(attendance) THEN "NOT_CLOCKED_IN"
  ELSE IF Val(attendance).status = "ON_BREAK" THEN "ON_BREAK"
  ELSE IF Val(attendance).status = "CLOCKED_OUT"
    THEN IF (~IsNull(schedule) /\ Val(schedule).shiftType.isSplit)
              /\ IsNull(Val(attendance).clockIn2)
           THEN "SPLIT_BREAK"
           ELSE "CLOCKED_OUT"
  ELSE IF Val(attendance).status = "CLOCKED_IN" THEN "WORKING"
  ELSE "NOT_CLOCKED_IN"

\* fromAttendance without the ON_BREAK branch
fromAttendance_onBreakMissing(attendance, schedule) ==
  IF IsNull(attendance) THEN "NOT_CLOCKED_IN"
  ELSE IF Val(attendance).status = "CLOCKED_OUT"
    THEN IF (~IsNull(schedule) /\ Val(schedule).shiftType.isSplit)
              /\ IsNull(Val(attendance).clockIn2)
           THEN "SPLIT_BREAK"
           ELSE "CLOCKED_OUT"
  ELSE IF Val(attendance).status = "CLOCKED_IN" THEN "WORKING"
  ELSE "CLOCKED_OUT"

\* fromAttendance testing the split shift for every finished status
fromAttendance_splitForEveryFinishedStatus(attendance, schedule) ==
  IF IsNull(attendance) THEN "NOT_CLOCKED_IN"
  ELSE IF Val(attendance).status = "ON_BREAK" THEN "ON_BREAK"
  ELSE IF Val(attendance).status = "CLOCKED_IN" THEN "WORKING"
  ELSE IF (~IsNull(schedule) /\ Val(schedule).shiftType.isSplit)
            /\ IsNull(Val(attendance).clockIn2)
    THEN "SPLIT_BREAK"
    ELSE "CLOCKED_OUT"

\* attendance is null or an Attendance row with its breaks included
\* derivation without the split break: a clocked-out record is CLOCKED_OUT
fromAttendance_noSplitBreak(attendance, schedule) ==
  IF IsNull(attendance) THEN "NOT_CLOCKED_IN"
  ELSE IF Val(attendance).status = "ON_BREAK" THEN "ON_BREAK"
  ELSE IF Val(attendance).status = "CLOCKED_IN" THEN "WORKING"
  ELSE "CLOCKED_OUT"

fromAttendance(attendance, schedule) ==
  IF IsNull(attendance) THEN "NOT_CLOCKED_IN"
  ELSE IF Val(attendance).status = "ON_BREAK" THEN "ON_BREAK"
  ELSE IF Val(attendance).status = "CLOCKED_OUT"
    THEN IF (~IsNull(schedule) /\ Val(schedule).shiftType.isSplit)
              /\ IsNull(Val(attendance).clockIn2)
           THEN "SPLIT_BREAK"
           ELSE "CLOCKED_OUT"
  ELSE IF Val(attendance).status = "CLOCKED_IN" THEN "WORKING"
  ELSE "CLOCKED_OUT"

\* canTransition allowing an action the table has no transition for
canTransition_missingTransitionAllowed(state, ctx, action) ==
  LET t == FindTransition(state, action)
  IN IF t = 0
       THEN [allowed |-> TRUE, reason |-> <<>>]
       ELSE ApplyGuard(transitions[t].guard, ctx)

canTransition(state, ctx, action) ==
  LET t == FindTransition(state, action)
  IN IF t = 0
       THEN [allowed |-> FALSE, reason |-> <<"cannot perform", action, "from", state>>]
       ELSE ApplyGuard(transitions[t].guard, ctx)

getNextState(state, action) ==
  LET t == FindTransition(state, action)
  IN IF t = 0 THEN Null ELSE Some(transitions[t].to)

\* getAvailableActions listing every leaving transition as allowed
getAvailableActions_guardsIgnored(state, ctx) ==
  LET leaving == SelectSeq(transitions, LAMBDA t : state \in t.from)
  IN [ i \in 1 .. Len(leaving) |->
         [ action |-> leaving[i].action, allowed |-> TRUE, reason |-> <<>> ] ]

\* transitions.filter((t) => t.from.includes(state)).map(...): one entry per
\* transition that leaves the state, in table order
getAvailableActions(state, ctx) ==
  LET leaving == SelectSeq(transitions, LAMBDA t : state \in t.from)
  IN [ i \in 1 .. Len(leaving) |->
         LET result == ApplyGuard(leaving[i].guard, ctx)
         IN [ action |-> leaving[i].action, allowed |-> result.allowed,
              reason |-> result.reason ] ]

(***************************************************************************)
(* Storage: the attendance, break and audit-log tables behind prisma.      *)
(* A row's id is its position in its table.                                *)
(***************************************************************************)
Slots == { 1, 2 }

VARIABLES now, schedule, attendances, breaks, auditLog, req, calls, probe, payrollRecords
vars == << now, schedule, attendances, breaks, auditLog, req, calls, probe, payrollRecords >>

\* breaks of one attendance row, in table order
RECURSIVE BreaksOf(_, _)
BreaksOf(brks, attendanceId) ==
  IF brks = <<>> THEN <<>>
  ELSE LET rest == BreaksOf(SubSeq(brks, 1, Len(brks) - 1), attendanceId)
           last == brks[Len(brks)]
       IN IF last.attendanceId = attendanceId THEN Append(rest, last) ELSE rest

\* include: { breaks: ... }
WithBreaks(row, brks) == row @@ [breaks |-> BreaksOf(brks, row.id)]

\* lookup by user alone: the user's latest row, whatever its date
findAttendanceByUserDate_latestOfUser(atts, brks, userId, date) ==
  LET hits == { i \in DOMAIN atts : atts[i].userId = userId }
  IN IF hits = {} THEN Null
     ELSE Some(WithBreaks(atts[CHOOSE i \in hits : \A k \in hits : k <= i], brks))

\* prisma.attendance.findUnique({ where: { userId_date } }) with its breaks
findAttendanceByUserDate(atts, brks, userId, date) ==
  LET hits == { i \in DOMAIN atts : atts[i].userId = userId /\ atts[i].date = date }
  IN IF hits = {} THEN Null
     ELSE Some(WithBreaks(atts[CHOOSE i \in hits : TRUE], brks))

\* prisma.attendance.findUnique({ where: { id } }) with its breaks
findAttendanceById(atts, brks, id) ==
  IF id \in DOMAIN atts THEN Some(WithBreaks(atts[id], brks)) ELSE Null

\* the key check without the constraint
userIdDateTaken_unconstrained(atts, userId, date) == FALSE

\* userId_date, the compound unique key of the attendance table: is the key
\* already used by a row?
userIdDateTaken(atts, userId, date) ==
  \E i \in DOMAIN atts : atts[i].userId = userId /\ atts[i].date = date

\* prisma.attendance.create: a second row for the same userId_date key is
\* rejected with a unique-constraint error
createAttendance(atts, userId, storeId, date, clockIn, scheduleId) ==
  IF userIdDateTaken(atts, userId, date)
    THEN [conflict |-> TRUE, table |-> atts]
    ELSE [ conflict |-> FALSE,
           table |-> Append(atts,
             [ id |-> Len(atts) + 1, userId |-> userId, storeId |-> storeId,
               date |-> date, clockIn |-> Some(clockIn), clockOut |-> Null,
               clockIn2 |-> Null, clockOut2 |-> Null, status |-> "CLOCKED_IN",
               scheduleId |-> scheduleId, totalMinutes |-> Null, breakMinutes |-> Null,
               netWorkMinutes |-> Null, overtimeMinutes |-> Null ]) ]

\* clockOut status that ignores the review flag
clockOutStatus_alwaysClockedOut(workHours) == "CLOCKED_OUT"

\* status chosen by clockOut from the work-hours result
clockOutStatus(workHours) ==
  IF workHours.requiresReview THEN "PENDING_REVIEW" ELSE "CLOCKED_OUT"

\* prisma.attendance.update of clockOut
updateClockOut(atts, id, clockOut, status, workHours) ==
  [ atts EXCEPT ![id] =
      [ @ EXCEPT !.clockOut = Some(clockOut), !.status = status,
                 !.totalMinutes = Some(workHours.totalMinutes),
                 !.breakMinutes = Some(workHours.breakMinutes),
                 !.netWorkMinutes = Some(workHours.netWorkMinutes),
                 !.overtimeMinutes = Some(workHours.overtimeMinutes) ] ]

\* startBreak writing the break without the status update
startBreakTransaction_statusNotUpdated(atts, brks, attendanceId, startTime, type) ==
  [ attendances |-> atts,
    breaks |-> Append(brks,
      [ id |-> Len(brks) + 1, attendanceId |-> attendanceId, startTime |-> startTime,
        endTime |-> Null, durationMinutes |-> Null, type |-> type ]) ]

\* prisma.$transaction([break.create, attendance.update]) of startBreak
startBreakTransaction(atts, brks, attendanceId, startTime, type) ==
  [ attendances |-> [ atts EXCEPT ![attendanceId].status = "ON_BREAK" ],
    breaks |-> Append(brks,
      [ id |-> Len(brks) + 1, attendanceId |-> attendanceId, startTime |-> startTime,
        endTime |-> Null, durationMinutes |-> Null, type |-> type ]) ]

\* prisma.$transaction([break.update, attendance.update]) of endBreak
endBreakTransaction(atts, brks, attendanceId, breakId, endTime, durationMinutes) ==
  [ attendances |-> [ atts EXCEPT ![attendanceId].status = "CLOCKED_IN" ],
    breaks |-> [ brks EXCEPT ![breakId] =
      [ @ EXCEPT !.endTime = Some(endTime), !.durationMinutes = Some(durationMinutes) ] ] ]

\* attendance.breaks.find((b) => !b.endTime) over breaks ordered by startTime
\* desc: an open break with the latest startTime (ties are storage-ordered)
OpenBreakCandidates(brks) ==
  { i \in DOMAIN brks :
      /\ IsNull(brks[i].endTime)
      /\ \A j \in DOMAIN brks : IsNull(brks[j].endTime) => brks[j].startTime <= brks[i].startTime }

(***************************************************************************)
(* AttendanceService: one request per slot; pc is the await the request    *)
(* is suspended at                                                         *)
(***************************************************************************)
Ops == { "clockIn", "clockOut", "startBreak", "endBreak" }

Idle ==
  [ op |-> "none", pc |-> "idle", breakType |-> "REST", attendance |-> Null,
    schedule |-> Null, updatedAttendance |-> Null, now |-> Null, workHours |-> Null,
    status |-> Null,
    currentBreak |-> Null, durationMinutes |-> Null, result |-> Null ]

\* a ClockResult; thrown marks a rejected promise instead of a result
Failure(reason, fallback) ==
  Some([ thrown |-> FALSE, success |-> FALSE,
         message |-> IF reason = <<>> THEN <<fallback>> ELSE reason,
         attendance |-> Null, newState |-> Null ])
Success(message, attendance, newState) ==
  Some([ thrown |-> FALSE, success |-> TRUE, message |-> message,
         attendance |-> attendance, newState |-> Some(newState) ])
Thrown(error) ==
  Some([ thrown |-> TRUE, success |-> FALSE, message |-> <<error>>,
         attendance |-> Null, newState |-> Null ])

ScheduleId(sched) == IF IsNull(sched) THEN Null ELSE Some(Val(sched).id)
ShiftTypeOf(sched) == IF IsNull(sched) THEN Null ELSE Some(Val(sched).shiftType)

Ctx(r) == [ schedule |-> req[r].schedule, attendance |-> req[r].attendance ]
StateOf(r) == fromAttendance(req[r].attendance, req[r].schedule)

\* no call of a pure function is under examination
NoProbe == [ fn |-> "none" ]

Init ==
  /\ now = FirstInstant
  /\ schedule \in ScheduleOptions
  /\ attendances = <<>>
  /\ breaks = <<>>
  /\ auditLog = <<>>
  /\ req = [ r \in Slots |-> Idle ]
  /\ calls = 0
  /\ probe = NoProbe
  /\ payrollRecords = <<>>

\* a finished call hands its ClockResult to the caller before anything else
\* happens
NoneDone == \A q \in Slots : req[q].pc # "done"
At(r, pc) == NoneDone /\ req[r].pc = pc
Free(r) == At(r, "idle")

\* time passes; only GetTodayAttendance and the checks read the clock, so the
\* clock is advanced only in front of them
Advance(instants) ==
  /\ NoneDone
  /\ \/ \A r \in Slots : req[r].pc = "idle"
     \/ \E r \in Slots : req[r].pc \in { "read", "check" }
  /\ \E t \in instants : t > now /\ now' = t
  /\ UNCHANGED << schedule, attendances, breaks, auditLog, req, calls, probe, payrollRecords >>

Tick == Advance(TimePoints)

\* time passes within the calendar day
TickToday == Advance({ t \in TimePoints : startOfDay(t) = startOfDay(now) })

\* breakType: BreakType = "REST"
DefaultBreakType == "REST"

\* only startBreak takes a break type
BreakTypesFor(op) == IF op = "startBreak" THEN BreakTypes ELSE { DefaultBreakType }

\* the API layer calls an operation of the service
Call(r, op, breakType) ==
  /\ Free(r)
  /\ Len(auditLog) < MaxAudit
  /\ req' = [ req EXCEPT ![r] = [ Idle EXCEPT !.op = op, !.pc = "read", !.breakType = breakType ] ]
  /\ UNCHANGED << now, schedule, attendances, breaks, auditLog, probe, payrollRecords >>

\* getTodayAttendance: today's attendance with its breaks, and today's schedule
GetTodayAttendance(r) ==
  /\ At(r, "read")
  /\ req' = [ req EXCEPT ![r] =
       [ @ EXCEPT !.attendance = findAttendanceByUserDate(attendances, breaks, UserId, startOfDay(now)),
                  !.schedule = schedule,
                  !.pc = "check" ] ]
  /\ UNCHANGED << now, schedule, attendances, breaks, auditLog, calls, probe, payrollRecords >>

\* clockIn up to the create it issues
ClockInCheck(r) ==
  /\ At(r, "check") /\ req[r].op = "clockIn"
  /\ LET can == canTransition(StateOf(r), Ctx(r), "CLOCK_IN")
     IN req' = [ req EXCEPT ![r] =
          IF ~can.allowed
            THEN [ @ EXCEPT !.pc = "done", !.result = Failure(can.reason, "cannot clock in") ]
            ELSE [ @ EXCEPT !.pc = "write", !.now = Some(now) ] ]
  /\ UNCHANGED << now, schedule, attendances, breaks, auditLog, calls, probe, payrollRecords >>

ClockInCreate(r) ==
  /\ At(r, "write") /\ req[r].op = "clockIn"
  /\ LET created == createAttendance(attendances, UserId, StoreId,
                      startOfDay(Val(req[r].now)), Val(req[r].now), ScheduleId(req[r].schedule))
     IN IF created.conflict
          THEN /\ req' = [ req EXCEPT ![r] =
                    [ @ EXCEPT !.pc = "done", !.result = Thrown("unique constraint failed") ] ]
               /\ UNCHANGED attendances
          ELSE /\ attendances' = created.table
               /\ req' = [ req EXCEPT ![r] =
                    [ @ EXCEPT !.pc = "audit",
                               !.updatedAttendance =
                                 Some(WithBreaks(created.table[Len(created.table)], breaks)) ] ]
  /\ UNCHANGED << now, schedule, breaks, auditLog, calls, probe, payrollRecords >>

\* clockOut up to the update it issues
ClockOutCheck(r) ==
  /\ At(r, "check") /\ req[r].op = "clockOut"
  /\ req' = [ req EXCEPT ![r] =
       IF IsNull(req[r].attendance)
         THEN [ @ EXCEPT !.pc = "done", !.result = Failure(<<>>, "not clocked in yet") ]
         ELSE LET can == canTransition(StateOf(r), Ctx(r), "CLOCK_OUT")
                  attendance == Val(req[r].attendance)
                  workHours == calculateWorkHours(
                    [ clockIn |-> Val(attendance.clockIn), clockOut |-> now,
                      clockIn2 |-> attendance.clockIn2, clockOut2 |-> attendance.clockOut2,
                      breaks |-> attendance.breaks, shiftType |-> ShiftTypeOf(req[r].schedule) ], now)
              IN IF ~can.allowed
                   THEN [ @ EXCEPT !.pc = "done", !.result = Failure(can.reason, "cannot clock out") ]
                   ELSE [ @ EXCEPT !.pc = "write", !.now = Some(now),
                                   !.workHours = Some(workHours),
                                   !.status = Some(clockOutStatus(workHours)) ] ]
  /\ UNCHANGED << now, schedule, attendances, breaks, auditLog, calls, probe, payrollRecords >>

ClockOutUpdate(r) ==
  /\ At(r, "write") /\ req[r].op = "clockOut"
  /\ LET id == Val(req[r].attendance).id
         updated == updateClockOut(attendances, id, Val(req[r].now), Val(req[r].status),
                                   Val(req[r].workHours))
     IN /\ attendances' = updated
        /\ req' = [ req EXCEPT ![r] =
             [ @ EXCEPT !.pc = "audit",
                        !.updatedAttendance = findAttendanceById(updated, breaks, id) ] ]
  /\ UNCHANGED << now, schedule, breaks, auditLog, calls, probe, payrollRecords >>

\* startBreak creating its break before it consults the state machine
StartBreakCheck_writesBeforeGuard(r) ==
  /\ At(r, "check") /\ req[r].op = "startBreak"
  /\ req' = [ req EXCEPT ![r] =
       IF IsNull(req[r].attendance)
         THEN [ @ EXCEPT !.pc = "done", !.result = Failure(<<>>, "not clocked in yet") ]
         ELSE LET can == canTransition(StateOf(r), Ctx(r), "START_BREAK")
              IN IF ~can.allowed
                   THEN [ @ EXCEPT !.pc = "done", !.result = Failure(can.reason, "cannot start break") ]
                   ELSE [ @ EXCEPT !.pc = "write", !.now = Some(now) ] ]
  /\ breaks' =
       IF IsNull(req[r].attendance) THEN breaks
       ELSE startBreakTransaction(attendances, breaks, Val(req[r].attendance).id, now,
                                  req[r].breakType).breaks
  /\ UNCHANGED << now, schedule, attendances, auditLog, calls, probe, payrollRecords >>

\* startBreak up to the transaction it issues
StartBreakCheck(r) ==
  /\ At(r, "check") /\ req[r].op = "startBreak"
  /\ req' = [ req EXCEPT ![r] =
       IF IsNull(req[r].attendance)
         THEN [ @ EXCEPT !.pc = "done", !.result = Failure(<<>>, "not clocked in yet") ]
         ELSE LET can == canTransition(StateOf(r), Ctx(r), "START_BREAK")
              IN IF ~can.allowed
                   THEN [ @ EXCEPT !.pc = "done", !.result = Failure(can.reason, "cannot start break") ]
                   ELSE [ @ EXCEPT !.pc = "write", !.now = Some(now) ] ]
  /\ UNCHANGED << now, schedule, attendances, breaks, auditLog, calls, probe, payrollRecords >>

StartBreakWrite(r) ==
  /\ At(r, "write") /\ req[r].op = "startBreak"
  /\ LET tx == startBreakTransaction(attendances, breaks, Val(req[r].attendance).id,
                                     Val(req[r].now), req[r].breakType)
     IN /\ attendances' = tx.attendances
        /\ breaks' = tx.breaks
  /\ req' = [ req EXCEPT ![r].pc = "refetch" ]
  /\ UNCHANGED << now, schedule, auditLog, calls, probe, payrollRecords >>

\* endBreak up to the transaction it issues
EndBreakCheck(r) ==
  /\ At(r, "check") /\ req[r].op = "endBreak"
  /\ IF IsNull(req[r].attendance)
       THEN req' = [ req EXCEPT ![r] =
              [ @ EXCEPT !.pc = "done", !.result = Failure(<<>>, "not clocked in yet") ] ]
       ELSE LET can == canTransition(StateOf(r), Ctx(r), "END_BREAK")
                included == Val(req[r].attendance).breaks
            IN IF ~can.allowed
                 THEN req' = [ req EXCEPT ![r] =
                        [ @ EXCEPT !.pc = "done", !.result = Failure(can.reason, "cannot end break") ] ]
                 ELSE IF OpenBreakCandidates(included) = {}
                   THEN req' = [ req EXCEPT ![r] =
                          [ @ EXCEPT !.pc = "done", !.result = Failure(<<>>, "no break in progress") ] ]
                   ELSE \E i \in OpenBreakCandidates(included) :
                          req' = [ req EXCEPT ![r] =
                            [ @ EXCEPT !.pc = "write", !.now = Some(now),
                                       !.currentBreak = Some(included[i].id),
                                       !.durationMinutes =
                                         Some(differenceInMinutes(now, included[i].startTime)) ] ]
  /\ UNCHANGED << now, schedule, attendances, breaks, auditLog, calls, probe, payrollRecords >>

EndBreakWrite(r) ==
  /\ At(r, "write") /\ req[r].op = "endBreak"
  /\ LET tx == endBreakTransaction(attendances, breaks, Val(req[r].attendance).id,
                                   Val(req[r].currentBreak), Val(req[r].now),
                                   Val(req[r].durationMinutes))
     IN /\ attendances' = tx.attendances
        /\ breaks' = tx.breaks
  /\ req' = [ req EXCEPT ![r].pc = "refetch" ]
  /\ UNCHANGED << now, schedule, auditLog, calls, probe, payrollRecords >>

\* startBreak and endBreak read the row back after their transaction
Refetch(r) ==
  /\ At(r, "refetch")
  /\ req' = [ req EXCEPT ![r] =
       [ @ EXCEPT !.pc = "audit",
                  !.updatedAttendance =
                    findAttendanceById(attendances, breaks, Val(req[r].attendance).id) ] ]
  /\ UNCHANGED << now, schedule, attendances, breaks, auditLog, calls, probe, payrollRecords >>

AuditAction(op) ==
  CASE op = "clockIn" -> "CLOCK_IN"
    [] op = "clockOut" -> "CLOCK_OUT"
    [] op = "startBreak" -> "START_BREAK"
    [] OTHER -> "END_BREAK"

ReportedState(op) ==
  CASE op = "clockIn" -> "WORKING"
    [] op = "clockOut" -> "CLOCKED_OUT"
    [] op = "startBreak" -> "ON_BREAK"
    [] OTHER -> "WORKING"

SuccessMessage(r) ==
  CASE req[r].op = "clockIn" -> <<"clock-in succeeded">>
    [] req[r].op = "clockOut" ->
         IF Val(req[r].status) = "PENDING_REVIEW"
           THEN <<"clock-out succeeded, pending manager review">>
           ELSE <<"clock-out succeeded">>
    [] req[r].op = "startBreak" -> <<"break started">>
    [] OTHER -> <<"break ended", Val(req[r].durationMinutes)>>

\* createAuditLog, then the successful ClockResult is returned
CreateAuditLog(r) ==
  /\ At(r, "audit")
  /\ auditLog' = Append(auditLog,
       [ userId |-> UserId, action |-> AuditAction(req[r].op), entityType |-> "Attendance",
         entityId |-> IF req[r].op = "clockIn" THEN Val(req[r].updatedAttendance).id
                      ELSE Val(req[r].attendance).id ])
  /\ req' = [ req EXCEPT ![r] =
       [ @ EXCEPT !.pc = "done",
                  !.result = Success(SuccessMessage(r), req[r].updatedAttendance,
                                     ReportedState(req[r].op)) ] ]
  /\ UNCHANGED << now, schedule, attendances, breaks, calls, probe, payrollRecords >>

\* the caller takes the result
Return(r) ==
  /\ req[r].pc = "done"
  /\ req' = [ req EXCEPT ![r] = Idle ]
  /\ UNCHANGED << now, schedule, attendances, breaks, auditLog, calls, probe, payrollRecords >>

Step(r) ==
  \/ GetTodayAttendance(r)
  \/ ClockInCheck(r) \/ ClockInCreate(r)
  \/ ClockOutCheck(r) \/ ClockOutUpdate(r)
  \/ StartBreakCheck(r) \/ StartBreakWrite(r)
  \/ EndBreakCheck(r) \/ EndBreakWrite(r)
  \/ Refetch(r)
  \/ CreateAuditLog(r)
  \/ Return(r)

\* requests are served one after the other
SequentialCall ==
  /\ \A r \in Slots : Free(r)
  /\ \E op \in Ops : \E breakType \in BreakTypesFor(op) : Call(1, op, breakType)
  /\ UNCHANGED calls

Next == Tick \/ SequentialCall \/ Step(1)
Spec == Init /\ [][Next]_vars

\* requests of the same employee and day overlap: a call that arrives while
\* slot 1 is busy is served in slot 2; calls counts the calls made; breaks
\* are of the default type
ConcurrentCall ==
  /\ calls < MaxCalls
  /\ calls' = calls + 1
  /\ \E op \in Ops :
       \/ Call(1, op, DefaultBreakType)
       \/ ~Free(1) /\ Call(2, op, DefaultBreakType)

NextConcurrent == TickToday \/ ConcurrentCall \/ \E r \in Slots : Step(r)
SpecConcurrent == Init /\ [][NextConcurrent]_vars

(***************************************************************************)
(* One ordinary day: clockIn, startBreak, endBreak and clockOut are called *)
(* in this order, each at any of the day's instants                        *)
(***************************************************************************)
DayScript == << "clockIn", "startBreak", "endBreak", "clockOut" >>
\* 09:00, 12:00, 12:00:30, 12:30, 18:00 and 18:40
DayInstants ==
  { d * DayTicks + m : d \in Days,
      m \in { 540 * TicksPerMinute, 720 * TicksPerMinute, 720 * TicksPerMinute + 1,
              750 * TicksPerMinute, 1080 * TicksPerMinute, 1120 * TicksPerMinute } }

TickDay == Advance(DayInstants)

\* the next call of the day is made once the previous one has succeeded
ScriptedCall ==
  /\ \A r \in Slots : Free(r)
  /\ Len(auditLog) < Len(DayScript)
  /\ Call(1, DayScript[Len(auditLog) + 1], DefaultBreakType)
  /\ UNCHANGED calls

NextDay == TickDay \/ ScriptedCall \/ Step(1)
SpecDay == Init /\ [][NextDay]_vars

(***************************************************************************)
(* ClockStateMachine on its own: a machine is derived from a snapshot or   *)
(* constructed in a given state, then one of its methods is called         *)
(***************************************************************************)
MaxProbeBreaks == 3

ServiceVars == << now, attendances, breaks, auditLog, req, calls, payrollRecords >>

MorningShift ==
  [ id |-> "morning", startTime |-> <<0, 9, 0, 0>>, endTime |-> <<1, 7, 0, 0>>,
    breakDuration |-> 60, maxBreakCount |-> 3, isSplit |-> FALSE,
    splitBreakStart |-> Null, splitBreakEnd |-> Null ]
MachineSchedules ==
  ScheduleOptions \cup { Some([id |-> MorningShift.id, shiftType |-> MorningShift]) }

\* the k-th break of a snapshot: half an hour long, or still open
ProbeBreak(k, open) ==
  LET start == FirstInstant + k * 60 * TicksPerMinute
  IN [ id |-> k, attendanceId |-> 1, startTime |-> start,
       endTime |-> IF open THEN Null ELSE Some(start + 30 * TicksPerMinute),
       durationMinutes |-> IF open THEN Null ELSE Some(30), type |-> DefaultBreakType ]
\* closed breaks, the last one possibly open
ProbeBreakLists ==
  { [ k \in 1 .. n |-> ProbeBreak(k, open /\ k = n) ] :
      n \in 0 .. MaxProbeBreaks, open \in BOOLEAN }
\* attendance snapshots: null, or a row with its breaks included
ProbeAttendances ==
  { Null } \cup
  { Some([ id |-> 1, userId |-> UserId, storeId |-> StoreId, date |-> 0,
           clockIn |-> Some(FirstInstant), clockOut |-> Null, clockIn2 |-> clockIn2,
           clockOut2 |-> Null, status |-> status, scheduleId |-> Null,
           totalMinutes |-> Null, breakMinutes |-> Null, netWorkMinutes |-> Null,
           overtimeMinutes |-> Null, breaks |-> brks ]) :
      status \in AttendanceStatus,
      clockIn2 \in { Null, Some(FirstInstant + 300 * TicksPerMinute) },
      brks \in ProbeBreakLists }

ProbeInput(attendance) ==
  [ fn |-> "input", attendance |-> attendance, derived |-> FALSE, state |-> Null,
    action |-> Null, result |-> Null ]
\* the ClockContext of the machine under examination
ProbeCtx == [ schedule |-> schedule, attendance |-> probe.attendance ]

InitMachine ==
  /\ now = FirstInstant
  /\ schedule \in MachineSchedules
  /\ attendances = <<>>
  /\ breaks = <<>>
  /\ auditLog = <<>>
  /\ req = [ r \in Slots |-> Idle ]
  /\ calls = 0
  /\ payrollRecords = <<>>
  /\ \E attendance \in ProbeAttendances : probe = ProbeInput(attendance)

\* ClockStateMachine.fromAttendance(attendance, ctx)
FromAttendanceCall ==
  /\ probe.fn = "input"
  /\ probe' = [ probe EXCEPT !.fn = "machine", !.derived = TRUE,
                             !.state = Some(fromAttendance(probe.attendance, schedule)) ]
  /\ UNCHANGED << schedule, ServiceVars >>

\* new ClockStateMachine(initialState, context)
Construct(initialState) ==
  /\ probe.fn = "input"
  /\ probe' = [ probe EXCEPT !.fn = "machine", !.state = Some(initialState) ]
  /\ UNCHANGED << schedule, ServiceVars >>

CanTransitionCall(action) ==
  /\ probe.fn = "machine"
  /\ probe' = [ probe EXCEPT !.fn = "canTransition", !.action = Some(action),
                             !.result = Some(canTransition(Val(probe.state), ProbeCtx, action)) ]
  /\ UNCHANGED << schedule, ServiceVars >>

GetNextStateCall(action) ==
  /\ probe.fn = "machine"
  /\ probe' = [ probe EXCEPT !.fn = "getNextState", !.action = Some(action),
                             !.result = Some(getNextState(Val(probe.state), action)) ]
  /\ UNCHANGED << schedule, ServiceVars >>

GetAvailableActionsCall ==
  /\ probe.fn = "machine"
  /\ probe' = [ probe EXCEPT !.fn = "getAvailableActions",
                             !.result = Some(getAvailableActions(Val(probe.state), ProbeCtx)) ]
  /\ UNCHANGED << schedule, ServiceVars >>

NextMachine ==
  \/ FromAttendanceCall
  \/ \E initialState \in ClockState : Construct(initialState)
  \/ \E action \in ClockAction : CanTransitionCall(action)
  \/ \E action \in ClockAction : GetNextStateCall(action)
  \/ GetAvailableActionsCall
SpecMachine == InitMachine /\ [][NextMachine]_vars

(***************************************************************************)
(* calculateWorkHours on its own: called once on an input                  *)
(***************************************************************************)
MaxCalcBreaks == 2

\* the instant hh:mm of day 0
Clock(hh, mm) == (60 * hh + mm) * TicksPerMinute

\* an overnight shift, 22:00-06:00 with a 45-minute break
NightShift ==
  [ id |-> "night", startTime |-> <<2, 2, 0, 0>>, endTime |-> <<0, 6, 0, 0>>,
    breakDuration |-> 45, maxBreakCount |-> 3, isSplit |-> FALSE,
    splitBreakStart |-> Null, splitBreakEnd |-> Null ]
CalcShiftTypes ==
  { Null, Some(RegularShift), Some(SplitShift), Some(MorningShift), Some(NightShift) }
CalcClockIns == { Clock(9, 0), Clock(9, 15), Clock(9, 16) }
CalcClockOuts == { Clock(17, 59), Clock(18, 0), Clock(19, 0), Clock(19, 1), Clock(20, 45) }
\* new Date() inside calculateWorkHours
CalcNow == Clock(21, 0)
\* breaks from 12:00 of 45 minutes, 45 and a half, 46, 90 and 91 minutes, and
\* breaks left open at 12:00 and at 20:50
CalcBreaks ==
  { [ startTime |-> Clock(12, 0), endTime |-> endTime, type |-> DefaultBreakType ] :
      endTime \in { Null, Some(Clock(12, 45)), Some(Clock(12, 45) + 1), Some(Clock(12, 46)),
                    Some(Clock(13, 30)), Some(Clock(13, 31)) } }
  \cup { [ startTime |-> Clock(20, 50), endTime |-> Null, type |-> DefaultBreakType ] }
CalcBreakLists ==
  UNION { [ 1 .. n -> CalcBreaks ] : n \in 0 .. MaxCalcBreaks }
\* the second segment is absent or 20:00-21:00
CalcSegment2 ==
  { [ clockIn2 |-> Null, clockOut2 |-> Null ],
    [ clockIn2 |-> Some(Clock(20, 0)), clockOut2 |-> Some(Clock(21, 0)) ] }
WorkHoursInputs ==
  { [ clockIn |-> clockIn, clockOut |-> clockOut, clockIn2 |-> segment2.clockIn2,
      clockOut2 |-> segment2.clockOut2, breaks |-> brks, shiftType |-> shiftType ] :
      clockIn \in CalcClockIns, clockOut \in CalcClockOuts, segment2 \in CalcSegment2,
      brks \in CalcBreakLists, shiftType \in CalcShiftTypes }

InitCalc ==
  /\ now = CalcNow
  /\ schedule = Null
  /\ attendances = <<>>
  /\ breaks = <<>>
  /\ auditLog = <<>>
  /\ req = [ r \in Slots |-> Idle ]
  /\ calls = 0
  /\ payrollRecords = <<>>
  /\ \E input \in WorkHoursInputs :
       probe = [ fn |-> "input", input |-> input, result |-> Null ]

CalculateWorkHoursCall ==
  /\ probe.fn = "input"
  /\ probe' = [ probe EXCEPT !.fn = "calculateWorkHours",
                             !.result = Some(calculateWorkHours(probe.input, now)) ]
  /\ UNCHANGED << schedule, ServiceVars >>

NextCalc == CalculateWorkHoursCall
SpecCalc == InitCalc /\ [][NextCalc]_vars

(***************************************************************************)
(* Payroll: PayrollService of lib/payroll/payroll-service.ts and the       *)
(* approval step that feeds it.  Amounts are exact fractions [num, den]    *)
(* in lowest terms with den > 0.                                           *)
(***************************************************************************)
RECURSIVE GCD(_, _)
GCD(a, b) == IF b = 0 THEN a ELSE GCD(b, a % b)
\* the number num / den
Rat(num, den) ==
  LET g == GCD(IF num < 0 THEN -num ELSE num, IF den < 0 THEN -den ELSE den)
      sign == IF den < 0 THEN -1 ELSE 1
  IN [ num |-> sign * (num \div g), den |-> sign * (den \div g) ]
RatInt(n) == [ num |-> n, den |-> 1 ]
RatAdd(x, y) == Rat(x.num * y.den + y.num * x.den, x.den * y.den)
RatMul(x, y) ==
  LET a == Rat(x.num, y.den)
      b == Rat(y.num, x.den)
  IN Rat(a.num * b.num, a.den * b.den)
RatLeq(x, y) == x.num * y.den <= y.num * x.den
RatMin(x, y) == IF RatLeq(x, y) THEN x ELSE y
RatMax(x, y) == IF RatLeq(x, y) THEN y ELSE x
\* Math.round: the nearest integer, halves upwards
MathRound(x) == (2 * x.num + x.den) \div (2 * x.den)
\* Math.round(x * 100) / 100
RoundHundredths(x) == Rat(MathRound(RatMul(x, RatInt(100))), 100)

\* OVERTIME_RATES: 1.34, 1.67 and 2.0
OVERTIME_RATES ==
  [ WEEKDAY |-> [ FIRST_2_HOURS |-> Rat(134, 100), AFTER_2_HOURS |-> Rat(167, 100) ],
    HOLIDAY |-> Rat(2, 1) ]
NIGHT_SHIFT_ALLOWANCE == 50
\* hourlyRate of a user without one
DefaultHourlyRate == 183
\* scheduledMinutes of a record without a shift
DefaultScheduledMinutes == 480
\* the overtime hours paid at the first rate
FirstTierHours == 2
\* the days and the hours by which a monthly salary is turned into an hourly rate
SalaryDays == 30
SalaryHours == 8

\* Date.getDay of a date: 0 is Sunday; day 0 of the model is Thursday 1 June
\* 2023, the first day of a 30-day month that is followed by a 31-day month
getDay(date) == (4 + date \div DayTicks) % 7
\* new Date(year, month + 1, 0).getDate(): the length of the date's month
monthDaysOf(date) == IF date \div DayTicks < 30 THEN 30 ELSE 31
\* endOfDay of lib/utils.ts: the last instant of the date's day
endOfDay(date) == startOfDay(date) + DayTicks - 1
\* Date.getHours and Date.getMinutes
getHours(date) == MinuteOfDay(date) \div 60
getMinutes(date) == MinuteOfDay(date) % 60

\* PayrollService.calculateOvertimePay(hours, hourlyRate)
calculateOvertimePay(hours, hourlyRate) ==
  IF RatLeq(hours, RatInt(0)) THEN RatInt(0)
  ELSE LET first2Hours == RatMin(hours, RatInt(FirstTierHours))
           afterHours == RatMax(RatInt(0), RatAdd(hours, RatInt(-FirstTierHours)))
       IN RatAdd(RatMul(RatMul(first2Hours, hourlyRate), OVERTIME_RATES.WEEKDAY.FIRST_2_HOURS),
                 RatMul(RatMul(afterHours, hourlyRate), OVERTIME_RATES.WEEKDAY.AFTER_2_HOURS))

\* PayrollService.calculateNightMinutes(clockIn, clockOut)
calculateNightMinutes(clockIn, clockOut) ==
  IF IsNull(clockOut) THEN RatInt(0)
  ELSE LET start == Val(clockIn)
           end == Val(clockOut)
           atStart == IF getHours(start) >= 22 \/ getHours(start) < 6
                        THEN RatMin(RatInt(60 - getMinutes(start)),
                                    Rat(end - start, TicksPerMinute))
                        ELSE RatInt(0)
           atEnd == IF getHours(end) >= 22 \/ getHours(end) < 6
                      THEN RatInt(getMinutes(end)) ELSE RatInt(0)
       IN RatMax(RatInt(0), RatAdd(atStart, atEnd))

\* PayrollService.getScheduledMinutes(shiftType)
getScheduledMinutes(shiftType) ==
  LET start == parseTimeString(shiftType.startTime)
      end == parseTimeString(shiftType.endTime)
      minutes == (end.hours * 60 + end.minutes) - (start.hours * 60 + start.minutes)
  IN IF minutes < 0 THEN minutes + 24 * 60 ELSE minutes

\* status filter of no effect: every status is counted
CountedStatuses_every == AttendanceStatus
\* where.status of the payroll query
CountedStatuses == { "CLOCKED_OUT", "APPROVED" }

\* orderBy date asc over rows of one user
RECURSIVE OrderByDate(_)
OrderByDate(rows) ==
  IF rows = {} THEN <<>>
  ELSE LET first == CHOOSE row \in rows : \A other \in rows : row.date <= other.date
       IN <<first>> \o OrderByDate(rows \ { first })

\* prisma.attendance.findMany of calculatePayroll, for one user of the store
findPayrollAttendances(atts, storeId, userId, periodStart, periodEnd) ==
  OrderByDate({ atts[i] : i \in { k \in DOMAIN atts :
    /\ atts[k].storeId = storeId
    /\ atts[k].userId = userId
    /\ atts[k].date >= startOfDay(periodStart)
    /\ atts[k].date <= endOfDay(periodEnd)
    /\ atts[k].status \in CountedStatuses } })

\* !att.clockIn || !att.netWorkMinutes: the record is passed over
PassedOver(att) ==
  IsNull(att.clockIn) \/ IsNull(att.netWorkMinutes) \/ Val(att.netWorkMinutes) = 0

isWeekend(att) == getDay(att.date) = 0 \/ getDay(att.date) = 6

\* scheduledMinutes of a weekday record
payrollScheduledMinutes(att) ==
  IF ~IsNull(att.schedule)
    THEN getScheduledMinutes(Val(att.schedule).shiftType)
    ELSE DefaultScheduledMinutes

\* the weekday branch of the loop over a user's records
WeekdayMinutes(att, totals) ==
  LET nightMinutes == calculateNightMinutes(att.clockIn, att.clockOut)
      scheduledMinutes == payrollScheduledMinutes(att)
      regularMinutes == Min(Val(att.netWorkMinutes), scheduledMinutes)
      overtimeMinutes == Max(0, Val(att.netWorkMinutes) - scheduledMinutes)
  IN [ totals EXCEPT
         !.totalRegularMinutes = @ + regularMinutes,
         !.totalOvertimeMinutes = @ + overtimeMinutes,
         !.totalNightMinutes = RatAdd(@, nightMinutes),
         !.details = Append(@, [ date |-> att.date, regularMinutes |-> regularMinutes,
                                 overtimeMinutes |-> overtimeMinutes, isHoliday |-> FALSE,
                                 nightMinutes |-> nightMinutes ]) ]

\* the weekend branch splitting the minutes like a weekday
WeekendMinutes_splitAsWeekday(att, totals) == WeekdayMinutes(att, totals)

\* the weekend branch of the loop over a user's records
WeekendMinutes(att, totals) ==
  LET nightMinutes == calculateNightMinutes(att.clockIn, att.clockOut)
  IN [ totals EXCEPT
         !.totalHolidayMinutes = @ + Val(att.netWorkMinutes),
         !.details = Append(@, [ date |-> att.date, regularMinutes |-> 0,
                                 overtimeMinutes |-> 0, isHoliday |-> TRUE,
                                 nightMinutes |-> nightMinutes ]) ]

\* the loop over a user's records: minute totals and per-record details
RECURSIVE PayrollTotals(_)
PayrollTotals(userAtts) ==
  IF userAtts = <<>>
    THEN [ totalRegularMinutes |-> 0, totalOvertimeMinutes |-> 0,
           totalHolidayMinutes |-> 0, totalNightMinutes |-> RatInt(0), details |-> <<>> ]
    ELSE LET totals == PayrollTotals(SubSeq(userAtts, 1, Len(userAtts) - 1))
             att == userAtts[Len(userAtts)]
         IN IF PassedOver(att) THEN totals
            ELSE IF isWeekend(att) THEN WeekendMinutes(att, totals)
            ELSE WeekdayMinutes(att, totals)

\* hourlyRate and monthlySalary as calculatePayroll reads them from the user
IsFullTime(user) == ~IsNull(user.employmentType) /\ Val(user.employmentType) = "FULL_TIME"
HourlyRateOf(user) ==
  IF ~IsNull(user.hourlyRate) THEN Val(user.hourlyRate) ELSE DefaultHourlyRate
\* isFullTime && monthlySalary
IsSalaried(user) ==
  IsFullTime(user) /\ ~IsNull(user.monthlySalary) /\ Val(user.monthlySalary) # 0
effectiveHourlyRate(user) ==
  IF IsSalaried(user)
    THEN Rat(Val(user.monthlySalary), SalaryDays * SalaryHours)
    ELSE RatInt(HourlyRateOf(user))

\* periodDays of the salaried basePay: Math.ceil of the days between the two
\* instants, plus 1
periodDaysOf(periodStart, periodEnd) ==
  -((periodStart - periodEnd) \div DayTicks) + 1

\* basePay before rounding
BasePay(user, regularHours, periodStart, periodEnd) ==
  IF IsSalaried(user)
    THEN LET periodDays == periodDaysOf(periodStart, periodEnd)
             monthDays == monthDaysOf(periodStart)
         IN RatMul(Rat(Val(user.monthlySalary), monthDays),
                   RatInt(Min(periodDays, monthDays)))
    ELSE RatMul(regularHours, RatInt(HourlyRateOf(user)))

\* PayrollService.calculatePayroll for one user: the user's PayrollCalculation,
\* or Null when the period holds no counted record of the user
calculatePayroll(atts, user, storeId, periodStart, periodEnd) ==
  LET userAtts == findPayrollAttendances(atts, storeId, user.id, periodStart, periodEnd)
      totals == PayrollTotals(userAtts)
      regularHours == Rat(totals.totalRegularMinutes, 60)
      overtimeHours == Rat(totals.totalOvertimeMinutes, 60)
      holidayHours == Rat(totals.totalHolidayMinutes, 60)
      nightShiftHours == RatMul(totals.totalNightMinutes, Rat(1, 60))
      basePay == BasePay(user, regularHours, periodStart, periodEnd)
      overtimePay == calculateOvertimePay(overtimeHours, effectiveHourlyRate(user))
      holidayPay == RatMul(RatMul(holidayHours, effectiveHourlyRate(user)),
                           OVERTIME_RATES.HOLIDAY)
      nightShiftPay == RatMul(nightShiftHours, RatInt(NIGHT_SHIFT_ALLOWANCE))
  IN IF userAtts = <<>> THEN Null
     ELSE Some([ userId |-> user.id,
                 employmentType |-> IF IsNull(user.employmentType) THEN "PART_TIME"
                                    ELSE Val(user.employmentType),
                 regularHours |-> RoundHundredths(regularHours),
                 overtimeHours |-> RoundHundredths(overtimeHours),
                 holidayHours |-> RoundHundredths(holidayHours),
                 nightShiftHours |-> RoundHundredths(nightShiftHours),
                 basePay |-> MathRound(basePay),
                 overtimePay |-> MathRound(overtimePay),
                 holidayPay |-> MathRound(holidayPay),
                 nightShiftPay |-> MathRound(nightShiftPay),
                 grossPay |-> MathRound(RatAdd(RatAdd(basePay, overtimePay),
                                               RatAdd(holidayPay, nightShiftPay))),
                 workDays |-> Len(userAtts),
                 hourlyRate |-> IF IsFullTime(user) THEN Null
                                ELSE Some(HourlyRateOf(user)),
                 monthlySalary |-> IF IsFullTime(user) THEN user.monthlySalary
                                   ELSE Null,
                 details |-> totals.details ])

\* the PayrollRecord written for a PayrollCalculation
PayrollRecordData(calc) ==
  [ regularHours |-> calc.regularHours, overtimeHours |-> calc.overtimeHours,
    holidayHours |-> calc.holidayHours, grossPay |-> calc.grossPay,
    deductions |-> 0, netPay |-> calc.grossPay,
    details |-> [ days |-> calc.details, employmentType |-> calc.employmentType,
                  basePay |-> calc.basePay, hourlyRate |-> calc.hourlyRate,
                  monthlySalary |-> calc.monthlySalary ],
    status |-> "DRAFT" ]

\* prisma.payrollRecord.findUnique({ where: { userId_periodStart_periodEnd } })
findPayrollRecord(records, userId, periodStart, periodEnd) ==
  { i \in DOMAIN records : /\ records[i].userId = userId
                           /\ records[i].periodStart = periodStart
                           /\ records[i].periodEnd = periodEnd }

\* generation that creates a record on every run
upsertPayrollRecord_alwaysCreate(records, calc, periodStart, periodEnd) ==
  Append(records,
    [ id |-> Len(records) + 1, userId |-> calc.userId,
      periodStart |-> startOfDay(periodStart), periodEnd |-> endOfDay(periodEnd) ]
    @@ PayrollRecordData(calc))

\* the body of the loop of generatePayrollRecords: update the existing record
\* of the key or create one
upsertPayrollRecord(records, calc, periodStart, periodEnd) ==
  LET existing == findPayrollRecord(records, calc.userId, startOfDay(periodStart),
                                    endOfDay(periodEnd))
  IN IF existing # {}
       THEN LET i == CHOOSE k \in existing : TRUE
            IN [ records EXCEPT ![i] =
                   [ id |-> records[i].id, userId |-> records[i].userId,
                     periodStart |-> records[i].periodStart,
                     periodEnd |-> records[i].periodEnd ] @@ PayrollRecordData(calc) ]
       ELSE Append(records,
              [ id |-> Len(records) + 1, userId |-> calc.userId,
                periodStart |-> startOfDay(periodStart),
                periodEnd |-> endOfDay(periodEnd) ] @@ PayrollRecordData(calc))

(***************************************************************************)
(* Payroll of one employee over a period that holds one or two attendance  *)
(* records on the days Thursday to Sunday: approvals are decided and the   *)
(* period's payroll is generated, up to MaxPayrollRuns times               *)
(***************************************************************************)
MaxPayrollRuns == 2

\* the users: hourly at 200, without rate or employment type, and salaried
Employees ==
  { [ id |-> UserId, employmentType |-> Some("PART_TIME"), hourlyRate |-> Some(200),
      monthlySalary |-> Null ],
    [ id |-> UserId, employmentType |-> Null, hourlyRate |-> Null,
      monthlySalary |-> Null ],
    [ id |-> UserId, employmentType |-> Some("FULL_TIME"), hourlyRate |-> Null,
      monthlySalary |-> Some(36000) ] }

\* periodStart and periodEnd of the request: the whole month, the first two
\* days as dates, and the first two days with an end at noon
PayrollPeriods ==
  { [ periodStart |-> 0, periodEnd |-> 29 * DayTicks ],
    [ periodStart |-> 0, periodEnd |-> DayTicks ],
    [ periodStart |-> 0, periodEnd |-> DayTicks + Clock(12, 0) ] }

\* clock-in and clock-out times of a record and its schedule; the records are
\* of the days 0 .. 3: Thursday, Friday, Saturday, Sunday
WorkedDays ==
  LET RegularSchedule == Some([ id |-> RegularShift.id, shiftType |-> RegularShift ]) IN
  { [ clockIn |-> Clock(9, 0), clockOut |-> Clock(18, 0), schedule |-> RegularSchedule ],
    [ clockIn |-> Clock(9, 0), clockOut |-> Clock(17, 30), schedule |-> RegularSchedule ],
    [ clockIn |-> Clock(9, 0), clockOut |-> Clock(17, 0), schedule |-> Null ],
    [ clockIn |-> Clock(9, 0), clockOut |-> Clock(19, 0), schedule |-> Null ],
    [ clockIn |-> Clock(9, 0), clockOut |-> Clock(20, 0), schedule |-> Null ],
    [ clockIn |-> Clock(22, 30), clockOut |-> Clock(23, 45), schedule |-> Null ] }

\* the work-hours result the clock-out of such a day stores
WorkHoursOf(day, worked) ==
  calculateWorkHours(
    [ clockIn |-> day * DayTicks + worked.clockIn,
      clockOut |-> day * DayTicks + worked.clockOut,
      clockIn2 |-> Null, clockOut2 |-> Null, breaks |-> <<>>,
      shiftType |-> ShiftTypeOf(worked.schedule) ],
    day * DayTicks + worked.clockOut)

\* the statuses a record of such a day can have: clockOut stores CLOCKED_OUT
\* or PENDING_REVIEW, the other statuses are set by collaborators
StatusesOf(day, worked) ==
  { clockOutStatus(WorkHoursOf(day, worked)), "APPROVED", "REJECTED" }
  \cup (IF worked.clockIn = Clock(9, 0) /\ worked.clockOut = Clock(18, 0)
          THEN { "CLOCKED_IN", "ON_BREAK", "ABSENT" } ELSE {})

\* the attendance row with its schedule included
PayrollAttendance(id, day, worked, status) ==
  LET finished == status \in { "CLOCKED_OUT", "PENDING_REVIEW", "APPROVED", "REJECTED" }
      workHours == WorkHoursOf(day, worked)
      stored(minutes) == IF finished THEN Some(minutes) ELSE Null
  IN [ id |-> id, userId |-> UserId, storeId |-> StoreId, date |-> day * DayTicks,
       clockIn |-> IF status = "ABSENT" THEN Null
                   ELSE Some(day * DayTicks + worked.clockIn),
       clockOut |-> stored(day * DayTicks + worked.clockOut),
       clockIn2 |-> Null, clockOut2 |-> Null, status |-> status,
       scheduleId |-> ScheduleId(worked.schedule), schedule |-> worked.schedule,
       totalMinutes |-> stored(workHours.totalMinutes),
       breakMinutes |-> stored(workHours.breakMinutes),
       netWorkMinutes |-> stored(workHours.netWorkMinutes),
       overtimeMinutes |-> stored(workHours.overtimeMinutes) ]

PayrollAttendances(id) ==
  UNION { { PayrollAttendance(id, day, worked, status) : status \in StatusesOf(day, worked) } :
          day \in 0 .. 3, worked \in WorkedDays }

\* the attendance table: one record, or two records of different days
PayrollTables ==
  { <<first>> : first \in PayrollAttendances(1) }
  \cup { table \in { <<first, second>> : first \in PayrollAttendances(1),
                                        second \in PayrollAttendances(2) } :
           table[1].date < table[2].date }

\* an approval is pending for every record that awaits review
InitPayroll ==
  /\ now = FirstInstant
  /\ schedule = Null
  /\ attendances \in PayrollTables
  /\ breaks = <<>>
  /\ auditLog = <<>>
  /\ req = [ r \in Slots |-> Idle ]
  /\ calls = 0
  /\ payrollRecords = <<>>
  /\ \E user \in Employees, period \in PayrollPeriods :
       probe = [ fn |-> "payroll", user |-> user, periodStart |-> period.periodStart,
                 periodEnd |-> period.periodEnd, approvals |-> [ i \in { k \in DOMAIN attendances :
                                attendances[k].status = "PENDING_REVIEW" } |-> "PENDING" ],
                 runs |-> 0, input |-> Null, result |-> Null ]

\* ApprovalService.processApproval of the approval of attendance row i
ProcessApproval(i, status) ==
  /\ i \in DOMAIN probe.approvals
  /\ probe.approvals[i] = "PENDING"
  /\ probe' = [ probe EXCEPT !.approvals[i] = status ]
  /\ attendances' = IF status = "APPROVED"
                      THEN [ attendances EXCEPT ![i].status = "APPROVED" ]
                      ELSE attendances
  /\ auditLog' = Append(auditLog,
       [ userId |-> "manager",
         action |-> IF status = "APPROVED" THEN "APPROVAL_APPROVED" ELSE "APPROVAL_REJECTED",
         entityType |-> "Approval", entityId |-> i ])
  /\ UNCHANGED << now, schedule, breaks, req, calls, payrollRecords >>

\* PayrollService.generatePayrollRecords for the period of the request
GeneratePayrollRecords ==
  /\ probe.runs < MaxPayrollRuns
  /\ LET calc == calculatePayroll(attendances, probe.user, StoreId, probe.periodStart,
                                  probe.periodEnd)
         records == IF IsNull(calc) THEN payrollRecords
                    ELSE upsertPayrollRecord(payrollRecords, Val(calc), probe.periodStart,
                                             probe.periodEnd)
     IN /\ payrollRecords' = records
        /\ auditLog' = Append(auditLog,
             [ userId |-> "manager", action |-> "GENERATE_PAYROLL",
               entityType |-> "PayrollRecord", entityId |-> StoreId,
               recordCount |-> IF IsNull(calc) THEN 0 ELSE 1 ])
        /\ probe' = [ probe EXCEPT !.runs = @ + 1, !.input = Some(attendances),
                                   !.result = calc ]
  /\ UNCHANGED << now, schedule, attendances, breaks, req, calls >>

NextPayroll ==
  \/ \E i \in DOMAIN attendances, status \in { "APPROVED", "REJECTED" } :
       ProcessApproval(i, status)
  \/ GeneratePayrollRecords
SpecPayroll == InitPayroll /\ [][NextPayroll]_vars

(***************************************************************************)
(* Calls served one after the other while the calendar day changes: the    *)
(* clock is read at 09:00 and 18:00 of the days 0 .. MaxNight              *)
(***************************************************************************)
MaxNight == 1
OvernightInstants ==
  { d * DayTicks + m : d \in 0 .. MaxNight, m \in { Clock(9, 0), Clock(18, 0) } }
NextOvernight == Advance(OvernightInstants) \/ SequentialCall \/ Step(1)
SpecOvernight == Init /\ [][NextOvernight]_vars

(***************************************************************************)
(* Properties                                                              *)
(***************************************************************************)
\* the open breaks of attendance row i
OpenBreaks(i) == { k \in DOMAIN breaks : breaks[k].attendanceId = i /\ IsNull(breaks[k].endTime) }
\* the stored row a request has read
StoredRow(r) == attendances[Val(req[r].attendance).id]
\* a request that has passed its check
PastCheck(r) == req[r].pc \in { "write", "refetch", "audit", "done" }
HasRecord(r) == req[r].op \in Ops /\ req[r].pc # "read" /\ ~IsNull(req[r].attendance)
Denied(r) ==
  /\ req[r].pc = "done"
  /\ ~Val(req[r].result).success
  /\ ~Val(req[r].result).thrown
Succeeded(r) == req[r].pc = "done" /\ Val(req[r].result).success
ClockOutFields(row) ==
  << row.clockOut, row.status, row.totalMinutes, row.breakMinutes, row.netWorkMinutes,
     row.overtimeMinutes >>
MaxBreaksOfDay ==
  IF IsNull(schedule) THEN DefaultMaxBreaks ELSE Val(schedule).shiftType.maxBreakCount

UniquePerDay ==
  \A i, j \in DOMAIN attendances :
    (attendances[i].userId = attendances[j].userId /\ attendances[i].date = attendances[j].date)
      => i = j

C1_State ==
  /\ UniquePerDay
  /\ \A r \in Slots :
       HasRecord(r) =>
         /\ StateOf(r) \in { "WORKING", "ON_BREAK", "CLOCKED_OUT", "SPLIT_BREAK" }
         /\ ~canTransition(StateOf(r), Ctx(r), "CLOCK_IN").allowed
         /\ (req[r].op = "clockIn" /\ PastCheck(r)) => Denied(r)
  /\ \A r \in Slots :
       (req[r].op = "clockIn" /\ Succeeded(r)) => IsNull(req[r].attendance)
C1_Frame ==
  \A r \in Slots :
    (req[r].op = "clockIn" /\ HasRecord(r)) =>
      (attendances' = attendances /\ breaks' = breaks /\ auditLog' = auditLog)

\* C1: served one after the other, the calls leave at most one attendance row
\* per (employee, day); clockIn succeeds only when it read no row, and when a
\* row exists the derived state is WORKING, ON_BREAK, CLOCKED_OUT or
\* SPLIT_BREAK, canTransition(CLOCK_IN) is not allowed, and clockIn returns
\* success:false without creating or changing any row
C1_OneRecordPerDay == [](C1_State) /\ [][C1_Frame]_vars
\* a clockIn is refused on a day whose record is already clocked out
C1_Witness ==
  /\ req[1].op = "clockIn" /\ Denied(1) /\ HasRecord(1)
  /\ ~IsNull(StoredRow(1).clockOut)
  /\ Len(attendances) = 1

C2_State ==
  \A i \in DOMAIN attendances :
    /\ attendances[i].status = "ON_BREAK" <=> Cardinality(OpenBreaks(i)) = 1
    /\ attendances[i].status # "ON_BREAK" => OpenBreaks(i) = {}
C2_Atomic ==
  /\ Len(breaks') > Len(breaks) =>
       /\ Len(breaks') = Len(breaks) + 1
       /\ attendances[breaks'[Len(breaks')].attendanceId].status = "CLOCKED_IN"
       /\ attendances'[breaks'[Len(breaks')].attendanceId].status = "ON_BREAK"
  /\ \A k \in DOMAIN breaks :
       (IsNull(breaks[k].endTime) /\ ~IsNull(breaks'[k].endTime)) =>
         /\ attendances[breaks[k].attendanceId].status = "ON_BREAK"
         /\ attendances'[breaks[k].attendanceId].status = "CLOCKED_IN"
  /\ \A i \in DOMAIN attendances :
       /\ (attendances[i].status # "ON_BREAK" /\ attendances'[i].status = "ON_BREAK") =>
            Len(breaks') = Len(breaks) + 1
       /\ (attendances[i].status = "ON_BREAK" /\ attendances'[i].status # "ON_BREAK") =>
            \E k \in DOMAIN breaks :
              /\ breaks[k].attendanceId = i
              /\ IsNull(breaks[k].endTime) /\ ~IsNull(breaks'[k].endTime)

\* C2: served one after the other, in every state (also between the storage
\* writes of one operation) a row is ON_BREAK exactly when it has exactly one
\* open break and has no open break in any other status; the break is created
\* in the same step that sets ON_BREAK and closed in the same step that sets
\* CLOCKED_IN
C2_OnBreakIffOneOpenBreak == [](C2_State) /\ [][C2_Atomic]_vars
\* the second break of the day has been written and startBreak has not yet
\* read the row back
C2_Witness ==
  /\ req[1].op = "startBreak" /\ req[1].pc = "refetch"
  /\ StoredRow(1).status = "ON_BREAK"
  /\ Cardinality(OpenBreaks(StoredRow(1).id)) = 1
  /\ Len(breaks) = 2

\* C3: for every stored attendance snapshot with an open break, whatever its
\* status and shift, canTransition(CLOCK_OUT) is not allowed, and a clockOut
\* that read such a snapshot returns success:false and leaves the row unchanged
C3_OpenBreakBlocksClockOut ==
  /\ \A i \in DOMAIN attendances :
       LET attendance == Some(WithBreaks(attendances[i], breaks))
       IN HasUnendedBreak(Val(attendance).breaks) =>
            ~canTransition(fromAttendance(attendance, schedule),
                           [schedule |-> schedule, attendance |-> attendance],
                           "CLOCK_OUT").allowed
  /\ \A r \in Slots :
       (req[r].op = "clockOut" /\ HasRecord(r) /\ PastCheck(r)
          /\ HasUnendedBreak(Val(req[r].attendance).breaks)) => Denied(r)

\* C4: a startBreak and a clockOut that overlap from WORKING never both
\* succeed: a successful clockOut finds no break added since it read the row,
\* a successful startBreak finds the row not clocked out, and no row has
\* clockOut set together with status ON_BREAK or an open break
C4_BreakAndClockOutExclude ==
  /\ \A i \in DOMAIN attendances :
       ~IsNull(attendances[i].clockOut) =>
         (attendances[i].status # "ON_BREAK" /\ OpenBreaks(i) = {})
  /\ \A r \in Slots :
       /\ (req[r].op = "clockOut" /\ Succeeded(r)) =>
            Len(BreaksOf(breaks, StoredRow(r).id)) = Len(Val(req[r].attendance).breaks)
       /\ (req[r].op = "startBreak" /\ Succeeded(r)) => IsNull(StoredRow(r).clockOut)

\* the successful clockIn calls recorded for the row's day
ClockInSuccesses(i) ==
  { k \in DOMAIN auditLog :
      /\ auditLog[k].action = "CLOCK_IN"
      /\ attendances[auditLog[k].entityId].date = attendances[i].date }

\* C5: when clockIn calls for the same (employee, day) overlap, at most one
\* attendance row is created for that day and at most one of the calls
\* returns success
C5_OneClockInWins ==
  /\ UniquePerDay
  /\ \A i \in DOMAIN attendances : Cardinality(ClockInSuccesses(i)) <= 1
  /\ \A r \in Slots :
       (req[r].op = "clockIn" /\ Succeeded(r)) =>
         Cardinality(ClockInSuccesses(Val(req[r].updatedAttendance).id)) = 1
\* the loser of two overlapping clockIn calls: it read no row, and its create
\* was rejected because the winner's row exists
C5_Witness ==
  \E r \in Slots :
    /\ req[r].op = "clockIn" /\ req[r].pc = "done"
    /\ IsNull(req[r].attendance)
    /\ Val(req[r].result).thrown
    /\ Len(attendances) = 1
    /\ Cardinality(ClockInSuccesses(1)) = 1

\* C6: when startBreak calls for the same row overlap, the row never has two
\* open breaks and never more breaks than the shift's maxBreakCount
C6_OneStartBreakWins ==
  \A i \in DOMAIN attendances :
    /\ Cardinality(OpenBreaks(i)) <= 1
    /\ Len(BreaksOf(breaks, i)) <= MaxBreaksOfDay

\* C7: a write rejected by the storage layer with a conflict makes the
\* operation return a normal failed result that asks to retry, it does not
\* throw; the winner's row is not overwritten
C7_ConflictIsRetryableFailure ==
  \A r \in Slots :
    req[r].pc = "done" =>
      /\ ~Val(req[r].result).thrown
      /\ (req[r].op = "clockIn" /\ IsNull(req[r].attendance) /\ ~Val(req[r].result).success) =>
           Val(req[r].result).message = <<"please retry">>

\* C8: every successful clockOut persists PENDING_REVIEW exactly when the
\* work-hours result computed for it has requiresReview, and CLOCKED_OUT
\* otherwise; the message is the pending-review one exactly when the persisted
\* status is PENDING_REVIEW
C8_ReviewFlagRoutesStatus ==
  \A r \in Slots :
    (req[r].op = "clockOut" /\ (req[r].pc = "audit" \/ Succeeded(r))) =>
      /\ StoredRow(r).status = "PENDING_REVIEW" <=> Val(req[r].workHours).requiresReview
      /\ StoredRow(r).status = "CLOCKED_OUT" <=> ~Val(req[r].workHours).requiresReview
      /\ StoredRow(r).clockOut = req[r].now
      /\ req[r].pc = "done" =>
           /\ Val(req[r].result).success
           /\ Val(Val(req[r].result).attendance).status = StoredRow(r).status
           /\ (Val(req[r].result).message = <<"clock-out succeeded, pending manager review">>)
                <=> StoredRow(r).status = "PENDING_REVIEW"
           /\ (Val(req[r].result).message = <<"clock-out succeeded">>)
                <=> StoredRow(r).status = "CLOCKED_OUT"
\* a clockOut has returned with the record routed to review
C8_Witness ==
  /\ req[1].op = "clockOut" /\ Succeeded(1)
  /\ StoredRow(1).status = "PENDING_REVIEW"
  /\ Val(req[1].workHours).requiresReview
  /\ ~Val(req[1].workHours).hasUnendedBreak

\* a clockOut that has read a row whose break is still open
ClockOutOnOpenBreak(r) ==
  /\ req[r].op = "clockOut" /\ req[r].pc = "done"
  /\ ~IsNull(req[r].attendance)
  /\ HasUnendedBreak(Val(req[r].attendance).breaks)
\* what calculateWorkHours yields for the row a clockOut has read
WorkHoursOfSnapshot(r) ==
  LET attendance == Val(req[r].attendance)
  IN calculateWorkHours(
       [ clockIn |-> Val(attendance.clockIn), clockOut |-> now,
         clockIn2 |-> attendance.clockIn2, clockOut2 |-> attendance.clockOut2,
         breaks |-> attendance.breaks, shiftType |-> ShiftTypeOf(req[r].schedule) ], now)

\* C9 as stated: clockIn, startBreak, then clockOut while the break is open:
\* the clock-out is carried out and the row is persisted as PENDING_REVIEW
C9_OpenBreakClockOutPersistsReview ==
  \A r \in Slots :
    ClockOutOnOpenBreak(r) =>
      /\ Val(req[r].result).success
      /\ StoredRow(r).status = "PENDING_REVIEW"

\* C9 amended: clockIn, startBreak, then clockOut while the break is open:
\* clockOut is denied with the state machine's reason for ON_BREAK, the row
\* stays ON_BREAK with clockOut null and nothing is written; calculateWorkHours
\* for the row read has hasUnendedBreak and requiresReview, which clockOut
\* would map to PENDING_REVIEW
C9_OpenBreakClockOutDenied ==
  \A r \in Slots :
    ClockOutOnOpenBreak(r) =>
      /\ Denied(r)
      /\ Val(req[r].result).message = <<"cannot perform", "CLOCK_OUT", "from", "ON_BREAK">>
      /\ WithBreaks(StoredRow(r), breaks) = Val(req[r].attendance)
      /\ StoredRow(r).status = "ON_BREAK"
      /\ IsNull(StoredRow(r).clockOut)
      /\ WorkHoursOfSnapshot(r).hasUnendedBreak
      /\ WorkHoursOfSnapshot(r).requiresReview
      /\ clockOutStatus(WorkHoursOfSnapshot(r)) = "PENDING_REVIEW"
\* clockOut has been refused while the day's only break is open
C9_Witness ==
  /\ ClockOutOnOpenBreak(1)
  /\ Denied(1)
  /\ Len(breaks) = 1
  /\ auditLog[Len(auditLog)].action = "START_BREAK"

C10_State ==
  \A r \in Slots :
    (HasRecord(r) /\ PastCheck(r) /\ ~IsNull(Val(req[r].attendance).clockOut)) => Denied(r)
C10_Frame ==
  \A i \in DOMAIN attendances :
    ~IsNull(attendances[i].clockOut) => ClockOutFields(attendances'[i]) = ClockOutFields(attendances[i])

\* C10: once a clockOut has succeeded for a day, every later clockIn,
\* clockOut, startBreak or endBreak of that day returns success:false and
\* leaves clockOut, status, totalMinutes, breakMinutes, netWorkMinutes and
\* overtimeMinutes unchanged, for split and non-split shifts and for both
\* CLOCKED_OUT and PENDING_REVIEW
C10_ClockedOutIsFinal == [](C10_State) /\ [][C10_Frame]_vars

\* the state getCurrentState derives next from the record a successful call
\* has left in storage
RederivedState(r) ==
  fromAttendance(findAttendanceById(attendances, breaks, Val(Val(req[r].result).attendance).id),
                 schedule)

\* C11: after every successful operation the state re-derived from the
\* persisted record equals the newState the operation reported and the `to`
\* state of the transition it took, for split and non-split shifts and for
\* clock-outs routed to PENDING_REVIEW
C11_ReportedStateIsRederived ==
  \A r \in Slots :
    Succeeded(r) =>
      /\ RederivedState(r) = Val(Val(req[r].result).newState)
      /\ Some(RederivedState(r)) = getNextState(StateOf(r), AuditAction(req[r].op))

\* the machine under examination was derived from its snapshot
Derived == probe.fn # "none" /\ probe.fn # "input" /\ probe.derived
ProbeStatus == Val(probe.attendance).status
ProbeIsSplit == ~IsNull(schedule) /\ Val(schedule).shiftType.isSplit

\* C12: state derivation is total: no record gives NOT_CLOCKED_IN, status
\* ON_BREAK gives ON_BREAK, CLOCKED_IN gives WORKING, CLOCKED_OUT with a split
\* shift and null clockIn2 gives SPLIT_BREAK, CLOCKED_OUT otherwise gives
\* CLOCKED_OUT, and PENDING_REVIEW, APPROVED, ABSENT and REJECTED give
\* CLOCKED_OUT, also for a split shift with null clockIn2
C12_DerivationIsTotal ==
  Derived =>
    /\ Val(probe.state) \in ClockState
    /\ IsNull(probe.attendance) => Val(probe.state) = "NOT_CLOCKED_IN"
    /\ ~IsNull(probe.attendance) =>
         /\ ProbeStatus = "ON_BREAK" => Val(probe.state) = "ON_BREAK"
         /\ ProbeStatus = "CLOCKED_IN" => Val(probe.state) = "WORKING"
         /\ (ProbeStatus = "CLOCKED_OUT" /\ ProbeIsSplit
               /\ IsNull(Val(probe.attendance).clockIn2)) => Val(probe.state) = "SPLIT_BREAK"
         /\ (ProbeStatus = "CLOCKED_OUT"
               /\ ~(ProbeIsSplit /\ IsNull(Val(probe.attendance).clockIn2))) =>
              Val(probe.state) = "CLOCKED_OUT"
         /\ ProbeStatus \in { "PENDING_REVIEW", "APPROVED", "ABSENT", "REJECTED" } =>
              Val(probe.state) = "CLOCKED_OUT"
\* a PENDING_REVIEW record of a split shift with null clockIn2 has been derived
C12_Witness ==
  /\ Derived /\ probe.fn = "machine"
  /\ ~IsNull(probe.attendance)
  /\ ProbeStatus = "PENDING_REVIEW" /\ ProbeIsSplit
  /\ IsNull(Val(probe.attendance).clockIn2)
  /\ Val(probe.state) = "CLOCKED_OUT"

\* the transition table has an entry for the pair
InTable(state, action) ==
  \E i \in DOMAIN transitions : transitions[i].action = action /\ state \in transitions[i].from

\* C13: for each of the 5 states and 6 actions and every snapshot (missing
\* schedule, missing attendance, empty break list) canTransition returns a
\* value; when the table has no entry for the pair it returns allowed false
\* with a non-empty reason and getNextState returns null
C13_NoEntryIsRefused ==
  /\ probe.fn = "canTransition" =>
       /\ DOMAIN Val(probe.result) = { "allowed", "reason" }
       /\ Val(probe.result).allowed \in BOOLEAN
       /\ ~InTable(Val(probe.state), Val(probe.action)) =>
            (~Val(probe.result).allowed /\ Val(probe.result).reason # <<>>)
  /\ probe.fn = "getNextState" =>
       /\ ~InTable(Val(probe.state), Val(probe.action)) => IsNull(Val(probe.result))
       /\ InTable(Val(probe.state), Val(probe.action)) => Val(Val(probe.result)) \in ClockState
\* START_BREAK has been refused in SPLIT_BREAK on a machine constructed
\* without attendance and without schedule
C13_Witness ==
  /\ probe.fn = "canTransition"
  /\ Val(probe.state) = "SPLIT_BREAK" /\ Val(probe.action) = "START_BREAK"
  /\ IsNull(probe.attendance) /\ IsNull(schedule)
  /\ ~Val(probe.result).allowed

\* the snapshot has three breaks while three are allowed: all three closed on
\* a CLOCKED_IN record, or the third still open on an ON_BREAK record
ThreeOfThreeBreaks ==
  /\ ~IsNull(probe.attendance)
  /\ Len(Val(probe.attendance).breaks) = 3
  /\ IF IsNull(schedule) THEN DefaultMaxBreaks = 3
     ELSE Val(schedule).shiftType.maxBreakCount = 3
  /\ \/ ProbeStatus = "CLOCKED_IN" /\ ~HasUnendedBreak(Val(probe.attendance).breaks)
     \/ ProbeStatus = "ON_BREAK" /\ HasUnendedBreak(Val(probe.attendance).breaks)

\* the reason contains the number n: of the reasons the machine gives only
\* the break-count message carries a number, the limit
ReasonNames(reason, n) ==
  /\ Len(reason) = 2
  /\ reason[1] = "max break count reached"
  /\ reason[2] = n

\* C14: with maxBreakCount = 3 (configured, or the default without a shift)
\* and a record that has 3 breaks, all closed or one still open,
\* canTransition(START_BREAK) returns allowed false with a reason that
\* contains the number 3
C14_BreakCeilingReasonNamesLimit ==
  (Derived /\ probe.fn = "canTransition" /\ Val(probe.action) = "START_BREAK"
     /\ ThreeOfThreeBreaks) =>
    /\ ~Val(probe.result).allowed
    /\ ReasonNames(Val(probe.result).reason, 3)

\* the actions the spec lists for each state
ListedActions(state) ==
  CASE state = "NOT_CLOCKED_IN" -> { "CLOCK_IN" }
    [] state = "WORKING" -> { "START_BREAK", "CLOCK_OUT", "CLOCK_OUT_SEGMENT_2" }
    [] state = "ON_BREAK" -> { "END_BREAK" }
    [] state = "CLOCKED_OUT" -> { "CLOCK_OUT" }
    [] state = "SPLIT_BREAK" -> { "CLOCK_IN_SEGMENT_2" }

Stored == << attendances, breaks, auditLog >>
\* a call that has returned success:false or has thrown
Failed(r) == req[r].pc = "done" /\ ~Val(req[r].result).success

C16_State ==
  \A r \in Slots :
    Failed(r) =>
      /\ ~Val(req[r].result).thrown
      /\ Val(req[r].result).message # <<>>
      /\ IsNull(Val(req[r].result).attendance)
C16_Frame ==
  \A r \in Slots :
    /\ req[r].pc \in { "read", "check" } => Stored' = Stored
    /\ (req[r].pc # "done" /\ req'[r].pc = "done" /\ ~Val(req'[r].result).success) =>
         req[r].pc = "check"
    /\ Failed(r) => Stored' = Stored

\* C16: served one after the other, a clockIn, clockOut, startBreak or
\* endBreak that returns success:false (guard denial, no record for the day,
\* no open break found) returns a result with a message and does not throw;
\* it fails at its check, and from its call to its return no attendance row,
\* break row or audit-log entry is created or changed
C16_FailureWritesNothing == [](C16_State) /\ [][C16_Frame]_vars
\* endBreak has been refused on a record that is not on break
C16_Witness ==
  /\ req[1].op = "endBreak" /\ Failed(1) /\ HasRecord(1)
  /\ StoredRow(1).status = "CLOCKED_IN"
  /\ Len(auditLog) >= 1

\* the actions of the audit entries written for the records of one day, in
\* log order
RECURSIVE AuditActionsOfDay(_, _)
AuditActionsOfDay(log, date) ==
  IF log = <<>> THEN <<>>
  ELSE LET rest == AuditActionsOfDay(SubSeq(log, 1, Len(log) - 1), date)
           last == log[Len(log)]
       IN IF attendances[last.entityId].date = date THEN Append(rest, last.action) ELSE rest
\* the actions can be taken one after the other through the transition table,
\* starting in the given state
RECURSIVE IsPath(_, _)
IsPath(state, actions) ==
  \/ actions = <<>>
  \/ /\ ~IsNull(getNextState(state, Head(actions)))
     /\ IsPath(Val(getNextState(state, Head(actions))), Tail(actions))

C17_Path ==
  \A d \in { attendances[i].date : i \in DOMAIN attendances } :
    IsPath("NOT_CLOCKED_IN", AuditActionsOfDay(auditLog, d))
\* a call returns success in this step
Succeeds(r) == req[r].pc # "done" /\ req'[r].pc = "done" /\ Val(req'[r].result).success
C17_Frame ==
  /\ auditLog' # auditLog =>
       /\ Len(auditLog') = Len(auditLog) + 1
       /\ SubSeq(auditLog', 1, Len(auditLog)) = auditLog
       /\ \E r \in Slots :
            /\ Succeeds(r)
            /\ req[r].pc = "audit"
            /\ attendances' = attendances /\ breaks' = breaks
            /\ auditLog'[Len(auditLog')] =
                 [ userId |-> UserId, action |-> AuditAction(req[r].op),
                   entityType |-> "Attendance",
                   entityId |-> Val(Val(req'[r].result).attendance).id ]
  /\ \A r \in Slots : Succeeds(r) => Len(auditLog') = Len(auditLog) + 1

\* C17: the audit log gets exactly one entry per call that returns success,
\* with that call's employee, action and attendance id, written after the
\* state-changing write; a failed call adds none; so the audit actions of a
\* day are always a path of the state machine
C17_AuditLogIsPath == [](C17_Path) /\ [][C17_Frame]_vars

\* the day's script has been carried out on a non-split shift: row i has its
\* clock-out and exactly one break, which is closed
ScriptedDayDone(i) ==
  /\ ~IsNull(schedule) /\ ~Val(schedule).shiftType.isSplit
  /\ ~IsNull(attendances[i].clockOut)
  /\ Len(BreaksOf(breaks, i)) = 1
  /\ ~IsNull(BreaksOf(breaks, i)[1].endTime)
\* (endTime - startTime) - breakDuration of the day's shift, in minutes
ScheduledMinutesOfDay ==
  LET shiftType == Val(schedule).shiftType
  IN (600 * shiftType.endTime[1] + 60 * shiftType.endTime[2]
        + 10 * shiftType.endTime[3] + shiftType.endTime[4])
     - (600 * shiftType.startTime[1] + 60 * shiftType.startTime[2]
        + 10 * shiftType.startTime[3] + shiftType.startTime[4])
     - shiftType.breakDuration
\* whole minutes from instant a to instant b
WholeMinutes(a, b) == (b - a) \div TicksPerMinute
\* C18: for clockIn at t0, startBreak at t1, endBreak at t2 and clockOut at t3
\* on a non-split shift the persisted record has totalMinutes = t3 - t0 and
\* breakMinutes = t2 - t1 (in whole minutes), netWorkMinutes = totalMinutes -
\* breakMinutes and overtimeMinutes = max(0, netWorkMinutes - scheduledMinutes);
\* 09:00 / 12:00 / 12:30 / 18:00 on the 09:00-18:00 shift with a 60-minute
\* break gives 540, 30, 510, overtime 30 and status CLOCKED_OUT
C18_SequentialDayMinutes ==
  \A i \in DOMAIN attendances :
    ScriptedDayDone(i) =>
      LET row == attendances[i]
          brk == BreaksOf(breaks, i)[1]
          total == WholeMinutes(Val(row.clockIn), Val(row.clockOut))
          break == WholeMinutes(brk.startTime, Val(brk.endTime))
      IN /\ Val(row.clockIn) <= brk.startTime /\ brk.startTime <= Val(brk.endTime)
         /\ Val(brk.endTime) <= Val(row.clockOut)
         /\ row.totalMinutes = Some(total)
         /\ row.breakMinutes = Some(break)
         /\ row.netWorkMinutes = Some(total - break)
         /\ row.overtimeMinutes = Some(Max(0, total - break - ScheduledMinutesOfDay))
         /\ ( /\ Val(schedule).shiftType = RegularShift
              /\ Val(row.clockIn) = Clock(9, 0) /\ brk.startTime = Clock(12, 0)
              /\ Val(brk.endTime) = Clock(12, 30) /\ Val(row.clockOut) = Clock(18, 0) ) =>
              /\ row.totalMinutes = Some(540) /\ row.breakMinutes = Some(30)
              /\ row.netWorkMinutes = Some(510) /\ row.overtimeMinutes = Some(30)
              /\ row.status = "CLOCKED_OUT"
              /\ \A r \in Slots :
                   (req[r].op = "clockOut" /\ Succeeded(r)) =>
                     /\ ~Val(req[r].workHours).requiresReview
                     /\ Val(req[r].workHours).regularMinutes = 480
\* the 09:00 / 12:00 / 12:30 / 18:00 day has been clocked out
C18_Witness ==
  /\ req[1].op = "clockOut" /\ Succeeded(1)
  /\ schedule = Some([id |-> RegularShift.id, shiftType |-> RegularShift])
  /\ ScriptedDayDone(1)
  /\ attendances[1].clockIn = Some(Clock(9, 0))
  /\ breaks[1].startTime = Clock(12, 0) /\ breaks[1].endTime = Some(Clock(12, 30))
  /\ attendances[1].clockOut = Some(Clock(18, 0))
  /\ attendances[1].overtimeMinutes = Some(30)

\* minutes of an "HH:MM" time
MinutesOf(time) == 600 * time[1] + 60 * time[2] + 10 * time[3] + time[4]
\* (endTime - startTime, plus 24h if negative) minus the split-break window
\* (for split shifts) minus the expected break duration
ScheduledMinutesOf(shiftType) ==
  LET span == MinutesOf(shiftType.endTime) - MinutesOf(shiftType.startTime)
      window ==
        IF shiftType.isSplit
          THEN MinutesOf(Val(shiftType.splitBreakEnd)) - MinutesOf(Val(shiftType.splitBreakStart))
          ELSE 0
  IN (IF span < 0 THEN span + 1440 ELSE span) - window - shiftType.breakDuration
Calculated == probe.fn = "calculateWorkHours"

\* C19: with a shift definition, regularMinutes = min(netWorkMinutes,
\* scheduledMinutes) and overtimeMinutes = max(0, netWorkMinutes -
\* scheduledMinutes), so the two add up to netWorkMinutes, scheduledMinutes
\* being (endTime - startTime, plus 24h if negative) minus the split-break
\* window minus the expected break; without a shift regularMinutes =
\* netWorkMinutes and overtimeMinutes = 0
C19_RegularPlusOvertime ==
  Calculated =>
    LET result == Val(probe.result)
        shiftType == probe.input.shiftType
    IN /\ result.regularMinutes + result.overtimeMinutes = result.netWorkMinutes
       /\ ~IsNull(shiftType) =>
            /\ result.regularMinutes =
                 Min(result.netWorkMinutes, ScheduledMinutesOf(Val(shiftType)))
            /\ result.overtimeMinutes =
                 Max(0, result.netWorkMinutes - ScheduledMinutesOf(Val(shiftType)))
       /\ IsNull(shiftType) =>
            /\ result.regularMinutes = result.netWorkMinutes
            /\ result.overtimeMinutes = 0
\* overtime has been computed against the overnight shift's 435 scheduled
\* minutes
C19_Witness ==
  /\ Calculated
  /\ probe.input.shiftType = Some(NightShift)
  /\ Val(probe.result).regularMinutes = 435
  /\ Val(probe.result).overtimeMinutes > 0

\* C20: requiresReview is true exactly when a break has null endTime, or
\* breakMinutes > 1.5 times the expected break (30 without a shift), or
\* lateClockIn > 15, or earlyClockOut > 0, or overtimeMinutes > 120; the
\* thresholds are strict
C20_ReviewIff ==
  Calculated =>
    LET result == Val(probe.result)
        input == probe.input
        expectedBreak ==
          IF IsNull(input.shiftType) THEN 30 ELSE Val(input.shiftType).breakDuration
    IN result.requiresReview <=>
         \/ \E i \in DOMAIN input.breaks : IsNull(input.breaks[i].endTime)
         \/ 2 * result.breakMinutes > 3 * expectedBreak
         \/ result.lateClockIn > 15
         \/ result.earlyClockOut > 0
         \/ result.overtimeMinutes > 120
\* lateClockIn = 15, overtimeMinutes = 120 and a break of exactly 1.5 times
\* the expected 60 minutes together do not require review
C20_Witness ==
  /\ Calculated
  /\ Val(probe.result).lateClockIn = 15
  /\ Val(probe.result).overtimeMinutes = 120
  /\ Val(probe.result).breakMinutes = 90
  /\ Val(probe.input.shiftType).breakDuration = 60
  /\ ~Val(probe.result).requiresReview

(***************************************************************************)
(* Payroll properties                                                      *)
(***************************************************************************)
\* payroll has been generated and the employee has a line item
PayrollRun == probe.fn = "payroll" /\ probe.runs > 0
Paid == PayrollRun /\ ~IsNull(probe.result)
LineItem == Val(probe.result)
\* the records of the last run's attendance snapshot that payroll counted
CountedOfRun ==
  findPayrollAttendances(Val(probe.input), StoreId, probe.user.id, probe.periodStart,
                         probe.periodEnd)
\* the tiered overtime pay of each day of the details, added up
RECURSIVE OvertimePayPerDay(_, _)
OvertimePayPerDay(details, rate) ==
  IF details = <<>> THEN RatInt(0)
  ELSE RatAdd(OvertimePayPerDay(Tail(details), rate),
              calculateOvertimePay(Rat(Head(details).overtimeMinutes, 60), rate))

\* C21: the overtime pay of a line item is the sum over its days of the
\* day's overtime hours tiered at two hours (first two hours of each day at
\* 1.34, the rest of that day at 1.67), rounded to the currency unit
C21_OvertimeTieredPerDay ==
  Paid => LineItem.overtimePay
            = MathRound(OvertimePayPerDay(LineItem.details, effectiveHourlyRate(probe.user)))

\* the counted records of the last run that entered the totals
EnteredOfRun == SelectSeq(CountedOfRun, LAMBDA att : ~PassedOver(att))
\* the line of the details written for a record
DetailOf(att) ==
  LineItem.details[CHOOSE k \in DOMAIN LineItem.details : LineItem.details[k].date = att.date]

\* C22: for every counted weekday record linked to a shift, the overtime
\* minutes in the payroll details equal the overtimeMinutes the work-hours
\* calculator stored on the record at clock-out
C22_PayrollOvertimeMatchesWorkHours ==
  Paid => \A k \in DOMAIN EnteredOfRun :
            LET att == EnteredOfRun[k]
            IN (~isWeekend(att) /\ ~IsNull(att.schedule))
                 => DetailOf(att).overtimeMinutes = Val(att.overtimeMinutes)

\* the night minutes of all lines of the details, added up
RECURSIVE NightMinutesOf(_)
NightMinutesOf(details) ==
  IF details = <<>> THEN RatInt(0)
  ELSE RatAdd(NightMinutesOf(Tail(details)), Head(details).nightMinutes)

\* C23: the night minutes of every counted record, weekend records
\* included, are in nightShiftHours and are paid at the flat allowance per
\* hour
C23_NightMinutesOfEveryRecordPaid ==
  Paid => LET nightHours == RatMul(NightMinutesOf(LineItem.details), Rat(1, 60))
          IN /\ LineItem.nightShiftHours = RoundHundredths(nightHours)
             /\ LineItem.nightShiftPay
                  = MathRound(RatMul(nightHours, RatInt(NIGHT_SHIFT_ALLOWANCE)))

\* the counted weekend records of the last run
WeekendOfRun == SelectSeq(EnteredOfRun, isWeekend)
RECURSIVE NetMinutesOf(_)
NetMinutesOf(atts) ==
  IF atts = <<>> THEN 0 ELSE Val(Head(atts).netWorkMinutes) + NetMinutesOf(Tail(atts))
RECURSIVE RegularMinutesOf(_)
RegularMinutesOf(details) ==
  IF details = <<>> THEN 0 ELSE Head(details).regularMinutes + RegularMinutesOf(Tail(details))
RECURSIVE OvertimeMinutesOf(_)
OvertimeMinutesOf(details) ==
  IF details = <<>> THEN 0 ELSE Head(details).overtimeMinutes + OvertimeMinutesOf(Tail(details))

\* C24: every counted Saturday or Sunday record is a holiday line with 0
\* regular and 0 overtime minutes, so the regular and overtime hours come
\* from the weekday lines only; the holiday hours are the net minutes of the
\* weekend records, and holidayPay is these hours times the effective hourly
\* rate times 2, rounded to the currency unit
C24_WeekendIsHolidayPay ==
  Paid =>
    LET holidayHours == Rat(NetMinutesOf(WeekendOfRun), 60)
    IN /\ \A k \in DOMAIN WeekendOfRun :
            /\ DetailOf(WeekendOfRun[k]).isHoliday
            /\ DetailOf(WeekendOfRun[k]).regularMinutes = 0
            /\ DetailOf(WeekendOfRun[k]).overtimeMinutes = 0
       /\ LineItem.regularHours
            = RoundHundredths(Rat(RegularMinutesOf(LineItem.details), 60))
       /\ LineItem.overtimeHours
            = RoundHundredths(Rat(OvertimeMinutesOf(LineItem.details), 60))
       /\ LineItem.holidayHours = RoundHundredths(holidayHours)
       /\ LineItem.holidayPay
            = MathRound(RatMul(RatMul(holidayHours, effectiveHourlyRate(probe.user)),
                               RatInt(2)))
\* 8 hours on a Saturday at rate 200 are paid 3200, with nothing regular
C24_Witness ==
  /\ Paid
  /\ probe.user.hourlyRate = Some(200)
  /\ Len(WeekendOfRun) = 1
  /\ getDay(WeekendOfRun[1].date) = 6
  /\ WeekendOfRun[1].netWorkMinutes = Some(480)
  /\ LineItem.holidayPay = 3200
  /\ LineItem.regularHours = RatInt(0)
  /\ LineItem.overtimePay = 0

\* the calendar days from periodStart to periodEnd, both included
CalendarDays(periodStart, periodEnd) ==
  periodEnd \div DayTicks - periodStart \div DayTicks + 1

\* C25: the base pay of a salaried employee is the monthly salary divided
\* by the days of the calendar month, times the calendar days of the period
\* (both ends included, at most the days of the month), whatever was worked;
\* the base pay of an hourly employee is the regular hours times the hourly
\* rate; both rounded to the currency unit
C25_BasePay ==
  Paid =>
    IF IsSalaried(probe.user)
      THEN LineItem.basePay
             = MathRound(RatMul(Rat(Val(probe.user.monthlySalary),
                                    monthDaysOf(probe.periodStart)),
                                RatInt(Min(CalendarDays(probe.periodStart, probe.periodEnd),
                                           monthDaysOf(probe.periodStart)))))
      ELSE LineItem.basePay
             = MathRound(RatMul(Rat(RegularMinutesOf(LineItem.details), 60),
                                RatInt(HourlyRateOf(probe.user))))

\* the attendance records the last run read
Snapshot == Val(probe.input)
\* those of them that are clocked out or approved
Finalized ==
  SelectSeq(Snapshot, LAMBDA att : att.status = "CLOCKED_OUT" \/ att.status = "APPROVED")

\* C26: the line item of a run is the one computed from the CLOCKED_OUT and
\* APPROVED records alone, so a record of any other status contributes no
\* minutes and no pay: without such records the employee has no line item,
\* and every line of the details belongs to such a record
C26_OnlyFinalizedRecordsCount ==
  PayrollRun =>
    /\ probe.result = calculatePayroll(Finalized, probe.user, StoreId, probe.periodStart,
                                       probe.periodEnd)
    /\ Finalized = <<>> => IsNull(probe.result)
    /\ Paid => \A k \in DOMAIN LineItem.details :
                 \E i \in DOMAIN Finalized : Finalized[i].date = LineItem.details[k].date
\* of two records routed to PENDING_REVIEW, the one the approver has set to
\* APPROVED is paid and the other one is not
C26_Witness ==
  /\ Paid
  /\ Len(Snapshot) = 2
  /\ DOMAIN probe.approvals = { 1, 2 }
  /\ probe.approvals[2] = "APPROVED"
  /\ Snapshot[1].status = "PENDING_REVIEW"
  /\ Snapshot[2].status = "APPROVED"
  /\ Len(LineItem.details) = 1
  /\ LineItem.details[1].date = Snapshot[2].date
  /\ LineItem.workDays = 1

\* the last step generated payroll again over the attendance records the
\* run before it had read
RegeneratedUnchanged ==
  /\ PayrollRun
  /\ probe'.runs = probe.runs + 1
  /\ probe.input = Some(attendances)
\* no two payroll records have the same employee, periodStart and periodEnd
OneRecordPerKey ==
  \A i, k \in DOMAIN payrollRecords :
    ( /\ payrollRecords[i].userId = payrollRecords[k].userId
      /\ payrollRecords[i].periodStart = payrollRecords[k].periodStart
      /\ payrollRecords[i].periodEnd = payrollRecords[k].periodEnd ) => i = k

\* C27: a run of the generation that follows a run over the same attendance
\* records yields the same line item and leaves the payroll records as the
\* first run wrote them, one per employee and period
C27_Step ==
  RegeneratedUnchanged =>
    /\ probe'.result = probe.result
    /\ payrollRecords' = payrollRecords
    /\ Len(payrollRecords') = IF IsNull(probe.result) THEN 0 ELSE 1
C27_RegenerationIsIdempotent == [][C27_Step /\ OneRecordPerKey']_vars
\* the second run over unchanged records has updated the one record
C27_Witness ==
  /\ Paid
  /\ probe.runs = 2
  /\ Len(auditLog) = 2
  /\ auditLog[1].action = "GENERATE_PAYROLL"
  /\ auditLog[2].action = "GENERATE_PAYROLL"
  /\ Len(payrollRecords) = 1
  /\ payrollRecords[1].grossPay = LineItem.grossPay

\* a request that has read the clocked-out segment-1 record of a split shift
ReadSplitClockedOut(r) ==
  /\ HasRecord(r)
  /\ ~IsNull(req[r].schedule)
  /\ Val(req[r].schedule).shiftType.isSplit
  /\ Val(req[r].attendance).status = "CLOCKED_OUT"

\* C28: clockIn2 and clockOut2 are null in every row in every state; a
\* request that reads the CLOCKED_OUT record of a split shift derives
\* SPLIT_BREAK, where the machine offers CLOCK_IN_SEGMENT_2 only, and each of
\* the four operations is denied
C28_SecondSegmentNeverStarts ==
  /\ \A i \in DOMAIN attendances :
       IsNull(attendances[i].clockIn2) /\ IsNull(attendances[i].clockOut2)
  /\ \A r \in Slots :
       ReadSplitClockedOut(r) =>
         /\ StateOf(r) = "SPLIT_BREAK"
         /\ Len(getAvailableActions(StateOf(r), Ctx(r))) = 1
         /\ getAvailableActions(StateOf(r), Ctx(r))[1].action = "CLOCK_IN_SEGMENT_2"
         /\ getAvailableActions(StateOf(r), Ctx(r))[1].allowed
         /\ \A action \in { "CLOCK_IN", "CLOCK_OUT", "START_BREAK", "END_BREAK" } :
              ~canTransition(StateOf(r), Ctx(r), action).allowed
         /\ PastCheck(r) => Denied(r)
\* after the segment-1 clock-out of a split shift a clockOut is denied
C28_Witness ==
  /\ ReadSplitClockedOut(1)
  /\ req[1].op = "clockOut"
  /\ Denied(1)
  /\ StoredRow(1).status = "CLOCKED_OUT"
  /\ IsNull(StoredRow(1).clockIn2)

\* row i as a request would read it, and the machine's view of it
RowRead(i) == Some(WithBreaks(attendances[i], breaks))
RowState(i) == fromAttendance(RowRead(i), schedule)
RowCtx(i) == [ schedule |-> schedule, attendance |-> RowRead(i) ]
\* the actions the four operations request
OperationActions == { "CLOCK_IN", "CLOCK_OUT", "START_BREAK", "END_BREAK" }

\* C29: served one after the other, a record that is CLOCKED_IN is WORKING
\* without an open break and CLOCK_OUT is allowed for it, whatever the number
\* of its breaks; a record that is ON_BREAK is in state ON_BREAK, END_BREAK is
\* allowed and leads to WORKING; a clockOut that read a CLOCKED_IN record and
\* an endBreak that read an ON_BREAK record are not denied, and the endBreak
\* leaves the record CLOCKED_IN
C29_DayCanBeCompleted ==
  /\ \A i \in DOMAIN attendances :
       /\ attendances[i].status = "CLOCKED_IN" =>
            /\ RowState(i) = "WORKING"
            /\ ~HasUnendedBreak(Val(RowRead(i)).breaks)
            /\ canTransition(RowState(i), RowCtx(i), "CLOCK_OUT").allowed
       /\ attendances[i].status = "ON_BREAK" =>
            /\ RowState(i) = "ON_BREAK"
            /\ canTransition(RowState(i), RowCtx(i), "END_BREAK").allowed
            /\ getNextState(RowState(i), "END_BREAK") = Some("WORKING")
       /\ attendances[i].status \in { "CLOCKED_IN", "ON_BREAK" } =>
            \E action \in OperationActions :
              canTransition(RowState(i), RowCtx(i), action).allowed
  /\ \A r \in Slots :
       /\ ( /\ req[r].op = "clockOut" /\ HasRecord(r) /\ PastCheck(r)
            /\ Val(req[r].attendance).status = "CLOCKED_IN" ) => ~Denied(r)
       /\ ( /\ req[r].op = "endBreak" /\ HasRecord(r) /\ PastCheck(r)
            /\ Val(req[r].attendance).status = "ON_BREAK" ) =>
            /\ ~Denied(r)
            /\ Succeeded(r) =>
                 /\ StoredRow(r).status = "CLOCKED_IN"
                 /\ Val(req[r].result).newState = Some("WORKING")
\* the clockOut of a record whose breaks have reached the shift's ceiling
\* has succeeded
C29_Witness ==
  /\ req[1].op = "clockOut" /\ Succeeded(1)
  /\ Val(req[1].attendance).status = "CLOCKED_IN"
  /\ Len(Val(req[1].attendance).breaks) = MaxBreaksOfDay
  /\ ~IsNull(StoredRow(1).clockOut)

\* the calendar day has changed since row i was created
Stale(i) == attendances[i].date < startOfDay(now)
\* request r holds row i, read before the day changed
Holds(r, i) ==
  /\ req[r].pc \notin { "idle", "read" }
  /\ ~IsNull(req[r].attendance)
  /\ Val(req[r].attendance).id = i
RowUnchanged(i) ==
  /\ attendances'[i] = attendances[i]
  /\ BreaksOf(breaks', i) = BreaksOf(breaks, i)
\* getTodayAttendance returns nothing or the employee's row of the day of
\* the read
C30_ReadsToday ==
  \A r \in Slots :
    (req[r].pc = "read" /\ req'[r].pc = "check") =>
      \/ IsNull(req'[r].attendance)
      \/ /\ Val(req'[r].attendance).userId = UserId
         /\ Val(req'[r].attendance).date = startOfDay(now)
\* a row or its breaks are changed only by a request that holds the row, and
\* never once the day has changed unless the request read it before
C30_WritesOwnRow ==
  \A i \in DOMAIN attendances :
    /\ ~RowUnchanged(i) => \E r \in Slots : Holds(r, i) /\ req[r].pc = "write"
    /\ (Stale(i) /\ \A r \in Slots : ~Holds(r, i)) => RowUnchanged(i)
\* a clockOut that found no row for its day fails with 'not clocked in'
C30_NotClockedIn ==
  \A r \in Slots :
    (req[r].op = "clockOut" /\ PastCheck(r) /\ IsNull(req[r].attendance)) =>
      /\ Denied(r)
      /\ Val(req[r].result).message = <<"not clocked in yet">>

\* C30: every operation reads the row of (employee, day of the call) and
\* writes that row only, so a row of an earlier day and its breaks are never
\* changed by a later call: a row still CLOCKED_IN or ON_BREAK at the change
\* of day keeps its status and null clockOut, and clockOut on the next day
\* fails with 'not clocked in'
C30_OnlyTodaysRecord == [](C30_NotClockedIn) /\ [][C30_ReadsToday /\ C30_WritesOwnRow]_vars
\* on the day after a clock-in without clock-out, clockOut has been refused
\* and the row of the day before is still open
C30_Witness ==
  /\ req[1].op = "clockOut" /\ Denied(1) /\ IsNull(req[1].attendance)
  /\ Len(attendances) = 1
  /\ Stale(1)
  /\ attendances[1].status \in { "CLOCKED_IN", "ON_BREAK" }
  /\ IsNull(attendances[1].clockOut)
====
